---- MODULE Spec2Model ----
(***************************************************************************)
(* remindme: payments read from spreadsheet rows, classified by the number *)
(* of days between their due date and "now" in Europe/Athens, and          *)
(* summarised in a report.                                                 *)
(*                                                                         *)
(* Time is counted in whole hours since 1970-01-01T00:00Z.  A time.Time is *)
(* a record [utc, loc]: the instant and the location its calendar fields   *)
(* are read in.  Texts (cells, descriptions) are sequences of characters.  *)
(***************************************************************************)
EXTENDS Integers, Sequences, FiniteSets, TLC

VARIABLES payments, now, call, ret, sheet, rows, ingest,
          proc, runs, stdout, pushed, logged, _GR

\* The state of main and of the runs it starts: the process, the runs of run
\* with their local variables, what was printed, the notifications pushed and
\* the errors logged; _GR is the package's variable of that name.
mainVars == <<proc, runs, stdout, pushed, logged, _GR>>

vars == <<payments, now, call, ret, sheet, rows, ingest, mainVars>>

(***************************************************************************)
(* Bounds of the model.                                                    *)
(***************************************************************************)
MaxPayments == 2

MaxRows == 2

\* The schedule fires at most MaxRuns times.
MaxRuns == 2

(***************************************************************************)
(* The proleptic Gregorian calendar, as package time computes it.          *)
(***************************************************************************)
IsLeap(y) == (y % 4 = 0) /\ ((y % 100 # 0) \/ (y % 400 = 0))

DaysIn(m, y) ==
    IF m = 2 THEN (IF IsLeap(y) THEN 29 ELSE 28)
    ELSE IF m \in {4, 6, 9, 11} THEN 30 ELSE 31

\* Days from 1970-01-01 to day d of month mp (0 = March) of year yoe of era.
DaysFromEra(era, yoe, mp, d) ==
    era * 146097 + yoe * 365 + yoe \div 4 - yoe \div 100
        + (153 * mp + 2) \div 5 + d - 1 - 719468

\* The same, for day d of month m of the year that begins in March of yy.
DaysFromMarchYear(yy, m, d) ==
    DaysFromEra(yy \div 400, yy % 400, IF m > 2 THEN m - 3 ELSE m + 9, d)

\* Days from 1970-01-01 to the civil date y-m-d.
DaysFromCivil(y, m, d) == DaysFromMarchYear(IF m <= 2 THEN y - 1 ELSE y, m, d)

CivilOfMonth(y, doy, mp) ==
    [year  |-> IF mp < 10 THEN y ELSE y + 1,
     month |-> IF mp < 10 THEN mp + 3 ELSE mp - 9,
     day   |-> doy - (153 * mp + 2) \div 5 + 1]

CivilOfDayOfYear(y, doy) == CivilOfMonth(y, doy, (5 * doy + 2) \div 153)

CivilOfYearOfEra(era, doe, yoe) ==
    CivilOfDayOfYear(yoe + era * 400, doe - (365 * yoe + yoe \div 4 - yoe \div 100))

CivilOfEra(era, doe) ==
    CivilOfYearOfEra(era, doe,
        (doe - doe \div 1460 + doe \div 36524 - doe \div 146096) \div 365)

\* The civil date of the day z days after 1970-01-01.
CivilFromDays(z) == CivilOfEra((z + 719468) \div 146097, (z + 719468) % 146097)

\* 0 = Sunday; 1970-01-01 was a Thursday.
Weekday(z) == (z + 4) % 7

\* The last Sunday on or before day z.
SundayOnOrBefore(z) == z - Weekday(z)

(***************************************************************************)
(* Locations.  Europe/Athens is UTC+2, and UTC+3 from 01:00Z on the last   *)
(* Sunday of March to 01:00Z on the last Sunday of October.                *)
(***************************************************************************)
UTC == "UTC"

GreekTimeZone == "Europe/Athens"

SummerTimeStart(y) == SundayOnOrBefore(DaysFromCivil(y, 3, 31)) * 24 + 1

SummerTimeEnd(y) == SundayOnOrBefore(DaysFromCivil(y, 10, 31)) * 24 + 1

\* The instant from which the zone period holding instant t of year y is in force.
AthensPeriodStartIn(t, y) ==
    IF t >= SummerTimeEnd(y) THEN SummerTimeEnd(y)
    ELSE IF t >= SummerTimeStart(y) THEN SummerTimeStart(y)
    ELSE SummerTimeEnd(y - 1)

AthensPeriodStart(t) == AthensPeriodStartIn(t, CivilFromDays(t \div 24).year)

AthensOffsetIn(t, y) ==
    IF SummerTimeStart(y) <= t /\ t < SummerTimeEnd(y) THEN 3 ELSE 2

AthensOffset(t) == AthensOffsetIn(t, CivilFromDays(t \div 24).year)

\* Hours east of UTC that location loc keeps at instant t.
Offset(loc, t) == IF loc = GreekTimeZone THEN AthensOffset(t) ELSE 0

PeriodStart(loc, t) == IF loc = GreekTimeZone THEN AthensPeriodStart(t) ELSE t

(***************************************************************************)
(* time.Time                                                               *)
(***************************************************************************)
\* time.Time{}: 0001-01-01T00:00Z, location unset.
ZeroTime == [utc |-> DaysFromCivil(1, 1, 1) * 24, loc |-> UTC]

In(t, loc) == [t EXCEPT !.loc = loc]

\* The calendar fields of t, read in t's location.
Civil(t) == CivilFromDays((t.utc + Offset(t.loc, t.utc)) \div 24)

\* time.Date: the wall clock reading unix is looked up as if it were UTC, and
\* looked up again when that guess falls before the period it was found in.
DateGuess(unix, loc, guess) ==
    [utc |-> unix - (IF unix - guess < PeriodStart(loc, unix)
                     THEN Offset(loc, unix - guess) ELSE guess),
     loc |-> loc]

DateAt(unix, loc) == DateGuess(unix, loc, Offset(loc, unix))

\* time.Date(y, m, d, 0, 0, 0, 0, loc)
Date(y, m, d, loc) == DateAt(DaysFromCivil(y, m, d) * 24, loc)

DateOfCivil(c, loc) == Date(c.year, c.month, c.day, loc)

\* ToDate building the date in UTC.
ToDateInUTC(t) == DateOfCivil(Civil(t), UTC)

ToDate(t) == DateOfCivil(Civil(t), GreekTimeZone)

\* Duration.Hours() of t.Sub(u); Sub saturates at the int64 nanosecond range.
MaxDurationHours == 2562047

Clamp(h) ==
    IF h > MaxDurationHours THEN MaxDurationHours
    ELSE IF h < -MaxDurationHours THEN -MaxDurationHours
    ELSE h

Sub(t, u) == Clamp(t.utc - u.utc)

\* int(h / 24) on float64: the quotient truncated toward zero.
TruncDays(h) == IF h >= 0 THEN h \div 24 ELSE -((-h) \div 24)

(***************************************************************************)
(* Payment                                                                 *)
(***************************************************************************)
NewPayment(description) == [description |-> description, due |-> ZeroTime]

\* WithDueDate storing the instant it is given.
WithDueDateAsGiven(p, due) == [p EXCEPT !.due = In(due, GreekTimeZone)]

WithDueDate(p, due) == [p EXCEPT !.due = ToDate(In(due, GreekTimeZone))]

IsDue(p) == p.due # ZeroTime

DiffFromNowInDays(p, t) ==
    TruncDays(Sub(p.due, ToDate(In(t, GreekTimeZone))))

(***************************************************************************)
(* Classifier                                                              *)
(***************************************************************************)
RECURSIVE FindPaymentsAt(_, _, _)
FindPaymentsAt(ps, diff, t) ==
    IF ps = <<>> THEN <<>>
    ELSE LET p     == ps[Len(ps)]
             found == FindPaymentsAt(SubSeq(ps, 1, Len(ps) - 1), diff, t)
         IN  IF ~IsDue(p) THEN found
             ELSE IF DiffFromNowInDays(p, t) = diff THEN Append(found, p)
             ELSE found

\* FindPaymentsUntil without its "skip non-due payments" test.
RECURSIVE FindPaymentsUntilNoSkip(_, _, _)
FindPaymentsUntilNoSkip(ps, maxDiff, t) ==
    IF ps = <<>> THEN <<>>
    ELSE LET p       == ps[Len(ps)]
             delayed == FindPaymentsUntilNoSkip(SubSeq(ps, 1, Len(ps) - 1), maxDiff, t)
         IN  IF DiffFromNowInDays(p, t) <= maxDiff THEN Append(delayed, p)
             ELSE delayed

RECURSIVE FindPaymentsUntil(_, _, _)
FindPaymentsUntil(ps, maxDiff, t) ==
    IF ps = <<>> THEN <<>>
    ELSE LET p       == ps[Len(ps)]
             delayed == FindPaymentsUntil(SubSeq(ps, 1, Len(ps) - 1), maxDiff, t)
         IN  IF ~IsDue(p) THEN delayed
             ELSE IF DiffFromNowInDays(p, t) <= maxDiff THEN Append(delayed, p)
             ELSE delayed

InWindow(d, timeWindowInDays) == d >= 1 /\ d <= timeWindowInDays

\* The selection loop of SummarizePaymentsComingUp.
RECURSIVE ComingUp(_, _, _)
ComingUp(ps, timeWindowInDays, t) ==
    IF ps = <<>> THEN <<>>
    ELSE LET p        == ps[Len(ps)]
             comingUp == ComingUp(SubSeq(ps, 1, Len(ps) - 1), timeWindowInDays, t)
         IN  IF ~IsDue(p) THEN comingUp
             ELSE IF InWindow(DiffFromNowInDays(p, t), timeWindowInDays)
                  THEN Append(comingUp, p)
             ELSE comingUp

\* The counting loop of SummarizeTotalPayments.
RECURSIVE TotalPending(_, _, _)
TotalPending(ps, timeWindowInDays, t) ==
    IF ps = <<>> THEN 0
    ELSE LET p == ps[Len(ps)]
             n == TotalPending(SubSeq(ps, 1, Len(ps) - 1), timeWindowInDays, t)
         IN  IF DiffFromNowInDays(p, t) <= timeWindowInDays THEN n + 1 ELSE n

(***************************************************************************)
(* Report lines.  A line is a record: its leading tag, the descriptions it *)
(* joins with ", ", and for the total its count and window.  NoLine is "". *)
(***************************************************************************)
Descriptions(ps) == [i \in 1..Len(ps) |-> ps[i].description]

NoLine == [tag |-> "", items |-> <<>>, n |-> 0, window |-> 0]

Line(tag, ps, n, w) == [tag |-> tag, items |-> Descriptions(ps), n |-> n, window |-> w]

SummarizeDelayedPayments(ps, t) ==
    LET delayed == FindPaymentsUntil(ps, -1, t)
    IN  IF Len(delayed) > 0 THEN Line("Delayed", delayed, 0, 0) ELSE NoLine

SummarizePaymentsForToday(ps, t) ==
    LET scheduled == FindPaymentsAt(ps, 0, t)
    IN  IF Len(scheduled) > 0 THEN Line("Today", scheduled, 0, 0)
        ELSE Line("Nothing for today", <<>>, 0, 0)

SummarizePaymentsComingUp(ps, timeWindowInDays, t) ==
    LET comingUp == ComingUp(ps, timeWindowInDays, t)
    IN  IF Len(comingUp) > 0 THEN Line("Coming Up", comingUp, 0, timeWindowInDays)
        ELSE Line("Nothing coming up", <<>>, 0, timeWindowInDays)

SummarizeTotalPayments(ps, timeWindowInDays, t) ==
    Line("Total", <<>>, TotalPending(ps, timeWindowInDays, t), timeWindowInDays)

(***************************************************************************)
(* Ingestion: time.Parse(time.DateOnly, text)                              *)
(***************************************************************************)
Digits == <<"0", "1", "2", "3", "4", "5", "6", "7", "8", "9">>

IsDigit(c) == \E v \in 1..Len(Digits) : Digits[v] = c

DigitValue(c) == (CHOOSE v \in 1..Len(Digits) : Digits[v] = c) - 1

\* The number written by the digits at positions from..to of text.
RECURSIVE Atoi(_, _, _)
Atoi(text, from, to) ==
    IF to < from THEN 0
    ELSE Atoi(text, from, to - 1) * 10 + DigitValue(text[to])

\* Four digits, "-", two digits, "-", two digits, and no text after them.
DateOnlyShaped(text) ==
    /\ Len(text) = 10
    /\ \A i \in {1, 2, 3, 4, 6, 7, 9, 10} : IsDigit(text[i])
    /\ text[5] = "-"
    /\ text[8] = "-"

DayInRange(y, m, d) == m \in 1..12 /\ d >= 1 /\ d <= DaysIn(m, y)

\* err == nil of time.Parse(time.DateOnly, text)
ParsesAsDateOnly(text) ==
    /\ DateOnlyShaped(text)
    /\ DayInRange(Atoi(text, 1, 4), Atoi(text, 6, 7), Atoi(text, 9, 10))

\* ParseDateOnly reading the month where the day is written and the day where
\* the month is.
ParseDateOnlyDayFirst(text) ==
    Date(Atoi(text, 1, 4), Atoi(text, 9, 10), Atoi(text, 6, 7), UTC)

\* The time that time.Parse(time.DateOnly, text) returns when err == nil.
ParseDateOnly(text) ==
    Date(Atoi(text, 1, 4), Atoi(text, 6, 7), Atoi(text, 9, 10), UTC)

(***************************************************************************)
(* Ingestion: errors.  An error is a record of its message and of the      *)
(* values formatted into it.                                               *)
(***************************************************************************)
Error(kind, label, column, row, value) ==
    [kind |-> kind, label |-> label, column |-> column, row |-> row, value |-> value]

Nil == Error("nil", "", -1, -1, <<>>)

NoDataFound == Error("no data found", "", -1, -1, <<>>)

DescriptionNotFound ==
    Error("description label was not found in sheet header", "", -1, -1, <<>>)

PaymentDateNotFound ==
    Error("payment date was not found in sheet header", "", -1, -1, <<>>)

CanNotRead(label, column, row) == Error("can not read", label, column, row, <<>>)

FailedToParseDueDate(value) ==
    Error("failed to parse due date value", "", -1, -1, value)

\* A cell whose value is a number: its dynamic type is float64, not string.
Number == <<"float64">>

\* v.(string) succeeds.
IsString(v) == v # Number

\* The run-time panic of a failed type assertion v.(string); it is no error
\* value, and unwinds the goroutine.
Panic ==
    Error("panic: interface conversion: interface {} is float64, not string",
          "", -1, -1, <<>>)

(***************************************************************************)
(* Ingestion: readPayments                                                 *)
(***************************************************************************)
DescriptionLabel == <<"D", "e", "s", "c", "r", "i", "p", "t", "i", "o", "n">>

DueDateLabel == <<"D", "u", "e", " ", "D", "a", "t", "e">>

PaymentDateLabel == <<"P", "a", "y", "m", "e", "n", "t", " ", "D", "a", "t", "e">>

\* The index (from 0) that the header loop leaves for label: the last cell
\* equal to it, or -1.
RECURSIVE HeaderIndex(_, _)
HeaderIndex(header, label) ==
    IF header = <<>> THEN -1
    ELSE IF header[Len(header)] = label THEN Len(header) - 1
    ELSE HeaderIndex(SubSeq(header, 1, Len(header) - 1), label)

\* row[index], the index counted from 0.
Cell(row, index) == row[index + 1]

\* The type assertions on the cells of row that the loop reads all succeed.
AssertsStrings(row, descriptionIndex, dueDateIndex, paymentDateIndex) ==
    /\ IsString(Cell(row, descriptionIndex))
    /\ dueDateIndex >= 0 => IsString(Cell(row, dueDateIndex))
    /\ IsString(Cell(row, paymentDateIndex))

\* ReadRow without its "already paid -- skip" test.
ReadRowKeepsPaid(row, idx, descriptionIndex, dueDateIndex, paymentDateIndex) ==
    IF descriptionIndex > Len(row) - 1
    THEN [err |-> CanNotRead("description", descriptionIndex, idx), add |-> <<>>]
    ELSE IF dueDateIndex > Len(row) - 1
    THEN [err |-> CanNotRead("due date", dueDateIndex, idx), add |-> <<>>]
    ELSE IF paymentDateIndex > Len(row) - 1
    THEN [err |-> CanNotRead("payment date", paymentDateIndex, idx), add |-> <<>>]
    ELSE IF ~AssertsStrings(row, descriptionIndex, dueDateIndex, paymentDateIndex)
    THEN [err |-> Panic, add |-> <<>>]
    ELSE IF dueDateIndex = -1
    THEN [err |-> Nil, add |-> <<NewPayment(Cell(row, descriptionIndex))>>]
    ELSE IF ~ParsesAsDateOnly(Cell(row, dueDateIndex))
    THEN [err |-> FailedToParseDueDate(Cell(row, dueDateIndex)), add |-> <<>>]
    ELSE [err |-> Nil,
          add |-> <<WithDueDate(NewPayment(Cell(row, descriptionIndex)),
                                ParseDateOnly(Cell(row, dueDateIndex)))>>]

\* One pass of the loop over the data rows: what it does with row number idx.
ReadRow(row, idx, descriptionIndex, dueDateIndex, paymentDateIndex) ==
    IF descriptionIndex > Len(row) - 1
    THEN [err |-> CanNotRead("description", descriptionIndex, idx), add |-> <<>>]
    ELSE IF dueDateIndex > Len(row) - 1
    THEN [err |-> CanNotRead("due date", dueDateIndex, idx), add |-> <<>>]
    ELSE IF paymentDateIndex > Len(row) - 1
    THEN [err |-> CanNotRead("payment date", paymentDateIndex, idx), add |-> <<>>]
    ELSE IF ~AssertsStrings(row, descriptionIndex, dueDateIndex, paymentDateIndex)
    THEN [err |-> Panic, add |-> <<>>]
    ELSE IF Cell(row, paymentDateIndex) # <<>>
    THEN [err |-> Nil, add |-> <<>>]
    ELSE IF dueDateIndex = -1
    THEN [err |-> Nil, add |-> <<NewPayment(Cell(row, descriptionIndex))>>]
    ELSE IF ~ParsesAsDateOnly(Cell(row, dueDateIndex))
    THEN [err |-> FailedToParseDueDate(Cell(row, dueDateIndex)), add |-> <<>>]
    ELSE [err |-> Nil,
          add |-> <<WithDueDate(NewPayment(Cell(row, descriptionIndex)),
                                ParseDateOnly(Cell(row, dueDateIndex)))>>]

\* ReadRows returning the payments read so far beside the error.
RECURSIVE ReadRowsKeepsRead(_, _, _, _, _, _)
ReadRowsKeepsRead(data, idx, read, descriptionIndex, dueDateIndex, paymentDateIndex) ==
    IF idx >= Len(data) THEN [payments |-> read, err |-> Nil]
    ELSE LET r == ReadRow(data[idx + 1], idx, descriptionIndex, dueDateIndex,
                          paymentDateIndex)
         IN  IF r.err # Nil THEN [payments |-> read, err |-> r.err]
             ELSE ReadRowsKeepsRead(data, idx + 1, read \o r.add, descriptionIndex,
                                    dueDateIndex, paymentDateIndex)

\* ReadRows passing over a row that cannot be read.
RECURSIVE ReadRowsSkipsShort(_, _, _, _, _, _)
ReadRowsSkipsShort(data, idx, read, descriptionIndex, dueDateIndex, paymentDateIndex) ==
    IF idx >= Len(data) THEN [payments |-> read, err |-> Nil]
    ELSE LET r == ReadRow(data[idx + 1], idx, descriptionIndex, dueDateIndex,
                          paymentDateIndex)
         IN  IF r.err # Nil /\ r.err.kind # "can not read"
             THEN [payments |-> <<>>, err |-> r.err]
             ELSE ReadRowsSkipsShort(data, idx + 1, read \o r.add, descriptionIndex,
                                     dueDateIndex, paymentDateIndex)

\* The loop over rows[1:], from row number idx on, with the payments read so far.
RECURSIVE ReadRows(_, _, _, _, _, _)
ReadRows(data, idx, read, descriptionIndex, dueDateIndex, paymentDateIndex) ==
    IF idx >= Len(data) THEN [payments |-> read, err |-> Nil]
    ELSE LET r == ReadRow(data[idx + 1], idx, descriptionIndex, dueDateIndex,
                          paymentDateIndex)
         IN  IF r.err # Nil THEN [payments |-> <<>>, err |-> r.err]
             ELSE ReadRows(data, idx + 1, read \o r.add, descriptionIndex,
                           dueDateIndex, paymentDateIndex)

\* ReadWithHeader reporting a missing payment date header as a missing description.
ReadWithHeaderOneMessage(data, descriptionIndex, dueDateIndex, paymentDateIndex) ==
    IF descriptionIndex = -1 \/ paymentDateIndex = -1
    THEN [payments |-> <<>>, err |-> DescriptionNotFound]
    ELSE ReadRows(data, 0, <<>>, descriptionIndex, dueDateIndex, paymentDateIndex)

\* The header checks, and the loop over the data rows when they pass.
ReadWithHeader(data, descriptionIndex, dueDateIndex, paymentDateIndex) ==
    IF descriptionIndex = -1 THEN [payments |-> <<>>, err |-> DescriptionNotFound]
    ELSE IF paymentDateIndex = -1 THEN [payments |-> <<>>, err |-> PaymentDateNotFound]
    ELSE ReadRows(data, 0, <<>>, descriptionIndex, dueDateIndex, paymentDateIndex)

\* The header loop asserts that every header cell is a string.
readPayments(rs) ==
    IF \E i \in 1..Len(rs[1]) : ~IsString(rs[1][i])
    THEN [payments |-> <<>>, err |-> Panic]
    ELSE ReadWithHeader(Tail(rs), HeaderIndex(rs[1], DescriptionLabel),
                        HeaderIndex(rs[1], DueDateLabel),
                        HeaderIndex(rs[1], PaymentDateLabel))

\* What getSheet makes of the rows the service returned.
getSheet(values) ==
    IF Len(values) <= 1 THEN [rows |-> <<>>, err |-> NoDataFound]
    ELSE [rows |-> values, err |-> Nil]

(***************************************************************************)
(* Report text.  A glyph is one character, written by its code point.      *)
(***************************************************************************)
Newline == "\n"

CommaSpace == <<",", " ">>

\* strings.Join(elems, sep)
RECURSIVE Join(_, _)
Join(elems, sep) ==
    IF elems = <<>> THEN <<>>
    ELSE IF Len(elems) = 1 THEN elems[1]
    ELSE Join(SubSeq(elems, 1, Len(elems) - 1), sep) \o sep \o elems[Len(elems)]

\* The decimal digits of n >= 0.
RECURSIVE Itoa(_)
Itoa(n) ==
    IF n < 10 THEN <<Digits[n + 1]>>
    ELSE Itoa(n \div 10) \o <<Digits[(n % 10) + 1]>>

\* What the verb %d of fmt.Sprintf writes for n.
FormatInt(n) == IF n < 0 THEN <<"-">> \o Itoa(-n) ELSE Itoa(n)

DelayedPrefix ==
    <<"U+26A0", " ", "D", "e", "l", "a", "y", "e", "d", ":", " ">>

TodayPrefix ==
    <<"U+1F4B8", " ", "T", "o", "d", "a", "y", ":", " ">>

NothingForToday ==
    <<"U+1F60E", " ", "N", "o", "t", "h", "i", "n", "g", " ", "f", "o", "r",
      " ", "t", "o", "d", "a", "y">>

ComingUpPrefix ==
    <<"U+23F3", " ", "C", "o", "m", "i", "n", "g", " ", "U", "p", " ", "(",
      "n", "e", "x", "t", " ">>

ComingUpSuffix ==
    <<" ", "d", "a", "y", "s", ")", ":", " ">>

NothingComingUpPrefix ==
    <<"U+1F60E", " ", "N", "o", "t", "h", "i", "n", "g", " ", "c", "o", "m",
      "i", "n", "g", " ", "u", "p", " ", "(", "n", "e", "x", "t", " ">>

NothingComingUpSuffix ==
    <<" ", "d", "a", "y", "s", ")">>

TotalPrefix ==
    <<"U+1F4B0", " ", "T", "o", "t", "a", "l", " ">>

TotalInfix ==
    <<" ", "p", "a", "y", "m", "e", "n", "t", "s", " ", "p", "e", "n", "d",
      "i", "n", "g", " ", "d", "u", "r", "i", "n", "g", " ", "t", "h", "e",
      " ", "n", "e", "x", "t", " ">>

TotalSuffix ==
    <<" ", "d", "a", "y", "s">>

NothingToReport ==
    <<"U+1F576", " ", " ", "N", "o", "t", "h", "i", "n", "g", " ", "t", "o",
      " ", "r", "e", "p", "o", "r", "t">>

\* The string a Summarize function returns for line.
Text(line) ==
    IF line.tag = "Delayed" THEN DelayedPrefix \o Join(line.items, CommaSpace)
    ELSE IF line.tag = "Today" THEN TodayPrefix \o Join(line.items, CommaSpace)
    ELSE IF line.tag = "Nothing for today" THEN NothingForToday
    ELSE IF line.tag = "Coming Up"
    THEN ComingUpPrefix \o FormatInt(line.window) \o ComingUpSuffix
         \o Join(line.items, CommaSpace)
    ELSE IF line.tag = "Nothing coming up"
    THEN NothingComingUpPrefix \o FormatInt(line.window) \o NothingComingUpSuffix
    ELSE IF line.tag = "Total"
    THEN TotalPrefix \o FormatInt(line.n) \o TotalInfix \o FormatInt(line.window)
         \o TotalSuffix
    ELSE <<>>

(***************************************************************************)
(* Inputs: texts, and instants around the Europe/Athens clock changes of   *)
(* 2024-03-31 (a 23-hour day) and 2024-10-27 (a 25-hour day).              *)
(***************************************************************************)
Foo == <<"f", "o", "o">>

Bar == <<"b", "a", "r">>

DescriptionTexts == {Foo, Bar}

\* y-m-d at h o'clock UTC.
Instant(y, m, d, h) == [utc |-> DaysFromCivil(y, m, d) * 24 + h, loc |-> UTC]

\* One instant of each set is read in Europe/Athens, the others in UTC.
ClockInstants ==
    { Instant(2024, 3, 1, 0), Instant(2024, 3, 30, 0), Instant(2024, 3, 30, 22),
      In(Instant(2024, 3, 31, 10), GreekTimeZone), Instant(2024, 3, 31, 21),
      Instant(2024, 10, 27, 0) }

DueInstants ==
    { Instant(2024, 3, 30, 0), In(Instant(2024, 3, 30, 21), GreekTimeZone),
      Instant(2024, 3, 31, 0), Instant(2024, 3, 31, 21), Instant(2024, 4, 2, 0),
      Instant(2024, 10, 28, 0) }

TargetDiffs == {-1, 0, 1}

MaxDiffs == {-1, 0}

ComingUpWindows == {1, 2}

TotalWindows == {30}

(***************************************************************************)
(* The classifier driven call by call, as its tests drive it.  call is the *)
(* call whose result the caller holds, ret that result; time.Now() reads   *)
(* now.                                                                    *)
(***************************************************************************)
NoCall == [op |-> "none", arg |-> 0]

NoRet == [found |-> <<>>, line |-> NoLine, n |-> 0]

NoRunError == [msg |-> "nil", sheet |-> <<>>, cause |-> Nil]

NoIngest == [done |-> FALSE, payments |-> <<>>, err |-> Nil, returned |-> NoRunError]

IngestIdle == sheet = <<>> /\ rows = <<>> /\ ingest = NoIngest

\* main has not started.
NoProc == [state |-> "none", cronMode |-> FALSE, print |-> FALSE]

\* The package variable _GR holds the location and, for the record, who
\* assigned it; nil before the first call of GreekTimeZone.
NoLocation == [loc |-> "nil", by |-> <<>>]

\* GreekTimeZone is called by who ("main", or "run" for a run of run): the
\* location is loaded and assigned when _GR is nil.
CallGreekTimeZone(gr, who) ==
    IF gr.loc = "nil" THEN [loc |-> GreekTimeZone, by |-> Append(gr.by, who)]
    ELSE gr

MainIdle ==
    /\ proc = NoProc
    /\ runs = <<>>
    /\ stdout = <<>>
    /\ pushed = <<>>
    /\ logged = <<>>
    /\ _GR = NoLocation

InitClassifier ==
    /\ payments = <<>>
    /\ now \in ClockInstants
    /\ call = NoCall
    /\ ret = NoRet
    /\ IngestIdle
    /\ MainIdle

CallNewPayment(description) ==
    /\ call = NoCall
    /\ Len(payments) < MaxPayments
    /\ payments' = Append(payments, NewPayment(description))
    /\ UNCHANGED <<call, ret>>
    /\ UNCHANGED <<now, sheet, rows, ingest>>
    /\ UNCHANGED mainVars

CallWithDueDate(i, due) ==
    /\ call = NoCall
    /\ payments' = [payments EXCEPT ![i] = WithDueDate(@, due)]
    /\ UNCHANGED <<call, ret>>
    /\ UNCHANGED <<now, sheet, rows, ingest>>
    /\ UNCHANGED mainVars

\* The wall clock moves on.
Tick(t) ==
    /\ call = NoCall
    /\ t.utc > now.utc
    /\ now' = t
    /\ UNCHANGED <<call, ret>>
    /\ UNCHANGED <<payments, sheet, rows, ingest>>
    /\ UNCHANGED mainVars

CallDiffFromNowInDays(i) ==
    /\ call = NoCall
    /\ call' = [op |-> "DiffFromNowInDays", arg |-> i]
    /\ ret' = [NoRet EXCEPT !.n = DiffFromNowInDays(payments[i], now)]
    /\ UNCHANGED <<payments, now, sheet, rows, ingest>>
    /\ UNCHANGED mainVars

CallFindPaymentsAt(diff) ==
    /\ call = NoCall
    /\ call' = [op |-> "FindPaymentsAt", arg |-> diff]
    /\ ret' = [NoRet EXCEPT !.found = FindPaymentsAt(payments, diff, now)]
    /\ UNCHANGED <<payments, now, sheet, rows, ingest>>
    /\ UNCHANGED mainVars

CallFindPaymentsUntil(maxDiff) ==
    /\ call = NoCall
    /\ call' = [op |-> "FindPaymentsUntil", arg |-> maxDiff]
    /\ ret' = [NoRet EXCEPT !.found = FindPaymentsUntil(payments, maxDiff, now)]
    /\ UNCHANGED <<payments, now, sheet, rows, ingest>>
    /\ UNCHANGED mainVars

CallSummarizeDelayedPayments ==
    /\ call = NoCall
    /\ call' = [op |-> "SummarizeDelayedPayments", arg |-> 0]
    /\ ret' = [NoRet EXCEPT !.found = FindPaymentsUntil(payments, -1, now),
                            !.line = SummarizeDelayedPayments(payments, now)]
    /\ UNCHANGED <<payments, now, sheet, rows, ingest>>
    /\ UNCHANGED mainVars

CallSummarizePaymentsForToday ==
    /\ call = NoCall
    /\ call' = [op |-> "SummarizePaymentsForToday", arg |-> 0]
    /\ ret' = [NoRet EXCEPT !.found = FindPaymentsAt(payments, 0, now),
                            !.line = SummarizePaymentsForToday(payments, now)]
    /\ UNCHANGED <<payments, now, sheet, rows, ingest>>
    /\ UNCHANGED mainVars

CallSummarizePaymentsComingUp(w) ==
    /\ call = NoCall
    /\ call' = [op |-> "SummarizePaymentsComingUp", arg |-> w]
    /\ ret' = [NoRet EXCEPT !.found = ComingUp(payments, w, now),
                            !.line = SummarizePaymentsComingUp(payments, w, now)]
    /\ UNCHANGED <<payments, now, sheet, rows, ingest>>
    /\ UNCHANGED mainVars

CallSummarizeTotalPayments(w) ==
    /\ call = NoCall
    /\ call' = [op |-> "SummarizeTotalPayments", arg |-> w]
    /\ ret' = [NoRet EXCEPT !.n = TotalPending(payments, w, now),
                            !.line = SummarizeTotalPayments(payments, w, now)]
    /\ UNCHANGED <<payments, now, sheet, rows, ingest>>
    /\ UNCHANGED mainVars

\* The caller is done with what the last call returned.
Return ==
    /\ call # NoCall
    /\ call' = NoCall
    /\ ret' = NoRet
    /\ UNCHANGED <<payments, now, sheet, rows, ingest>>
    /\ UNCHANGED mainVars

NextClassifier ==
    \/ \E description \in DescriptionTexts : CallNewPayment(description)
    \/ \E i \in 1..Len(payments), due \in DueInstants : CallWithDueDate(i, due)
    \/ \E t \in ClockInstants : Tick(t)
    \/ \E i \in 1..Len(payments) : CallDiffFromNowInDays(i)
    \/ \E diff \in TargetDiffs : CallFindPaymentsAt(diff)
    \/ \E maxDiff \in MaxDiffs : CallFindPaymentsUntil(maxDiff)
    \/ CallSummarizeDelayedPayments
    \/ CallSummarizePaymentsForToday
    \/ \E w \in ComingUpWindows : CallSummarizePaymentsComingUp(w)
    \/ \E w \in TotalWindows : CallSummarizeTotalPayments(w)
    \/ Return

SpecClassifier == InitClassifier /\ [][NextClassifier]_vars


(***************************************************************************)
(* Inputs: sheets.  A sheet is a header row and up to MaxRows data rows;   *)
(* a row may stop short of the header's width, as the service drops the    *)
(* empty cells a row ends with.                                            *)
(***************************************************************************)
LowerDescriptionLabel == <<"d", "e", "s", "c", "r", "i", "p", "t", "i", "o", "n">>

NotesLabel == <<"N", "o", "t", "e", "s">>

Headers ==
    { <<DescriptionLabel, DueDateLabel, PaymentDateLabel>>,
      <<PaymentDateLabel, DescriptionLabel, DueDateLabel>>,
      <<DescriptionLabel, PaymentDateLabel, NotesLabel>>,
      <<DescriptionLabel, PaymentDateLabel>>,
      <<DescriptionLabel, DueDateLabel>>,
      <<LowerDescriptionLabel, DueDateLabel, PaymentDateLabel>> }

ValidDate == <<"2", "0", "2", "4", "-", "0", "3", "-", "3", "1">>

DayOutOfRange == <<"2", "0", "2", "4", "-", "0", "2", "-", "3", "0">>

NotADate == <<"n", "o", "t", "-", "a", "-", "d", "a", "t", "e">>

PaidOn == <<"2", "0", "2", "4", "-", "0", "3", "-", "0", "1">>

LeapDay == <<"2", "0", "2", "4", "-", "0", "2", "-", "2", "9">>

\* The 25-hour day of Europe/Athens.
LongDay == <<"2", "0", "2", "4", "-", "1", "0", "-", "2", "7">>

DueDateCells == {<<>>, ValidDate, LeapDay, LongDay, DayOutOfRange, NotADate}

PaymentDateCells == {<<>>, PaidOn}

\* The texts a cell under header cell label may hold.
CellsUnder(label) ==
    IF label = DueDateLabel THEN DueDateCells
    ELSE IF label = PaymentDateLabel THEN PaymentDateCells
    ELSE IF label = NotesLabel THEN {<<>>, Foo}
    ELSE DescriptionTexts

AllCells == UNION {CellsUnder(label) : label \in {DueDateLabel, PaymentDateLabel, NotesLabel, DescriptionLabel}}

RowsUnder(header) ==
    UNION { {row \in [1..n -> AllCells] : \A i \in 1..n : row[i] \in CellsUnder(header[i])} :
            n \in 0..Len(header) }

\* The data rows a sheet of n rows may hold under header.
DataUnder(header, n) == [1..n -> RowsUnder(header)]

\* What the service may return for a sheet: nothing, or a header and data rows.
SheetValues(header, data) == {<<>>, <<header>> \o data}

Bills == <<"b", "i", "l", "l", "s">>

Taxes == <<"t", "a", "x", "e", "s">>

SheetNames == {Bills, Taxes}


(***************************************************************************)
(* The body of run's loop over the sheets, for one sheet: the rows are     *)
(* fetched and read, and either appended to run's payments or returned as  *)
(* run's error.                                                            *)
(***************************************************************************)
RunError(msg, name, cause) == [msg |-> msg, sheet |-> name, cause |-> cause]

\* What the loop body makes of the values the service returned for sheet name:
\* the list and error of readPayments, and the error run returns.
ReadSheet(name, values) ==
    IF getSheet(values).err # Nil
    THEN [done |-> TRUE, payments |-> <<>>, err |-> getSheet(values).err,
          returned |-> RunError("failed to read sheet", name, getSheet(values).err)]
    ELSE IF readPayments(values).err = Panic
    THEN [done |-> TRUE, payments |-> <<>>, err |-> Panic, returned |-> NoRunError]
    ELSE IF readPayments(values).err # Nil
    THEN [done |-> TRUE, payments |-> readPayments(values).payments,
          err |-> readPayments(values).err,
          returned |-> RunError("failed to read payments from sheet", name,
                                readPayments(values).err)]
    ELSE [done |-> TRUE, payments |-> readPayments(values).payments, err |-> Nil,
          returned |-> NoRunError]

InitIngest ==
    /\ payments = <<>>
    /\ now \in {Instant(2024, 3, 30, 0)}
    /\ call = NoCall
    /\ ret = NoRet
    /\ sheet \in SheetNames
    /\ rows = <<>>
    /\ ingest = NoIngest
    /\ MainIdle

\* values is what the service returns for the sheet.
RunReadSheet ==
    /\ ~ingest.done
    /\ \E header \in Headers, n \in 0..MaxRows :
       \E data \in DataUnder(header, n) :
       \E values \in SheetValues(header, data) :
           /\ rows' = values
           /\ ingest' = ReadSheet(sheet, values)
           /\ payments' = IF ReadSheet(sheet, values).err = Nil
                          THEN payments \o ReadSheet(sheet, values).payments
                          ELSE payments
    /\ UNCHANGED <<now, call, ret, sheet>>
    /\ UNCHANGED mainVars

NextIngest == RunReadSheet

SpecIngest == InitIngest /\ [][NextIngest]_vars

\* The windows run passes to SummarizePaymentsComingUp and SummarizeTotalPayments.
ComingUpDays == 2

TotalDays == 30

\* What the loop of readPayments does with line number k of values, a data row.
RowOf(values, k) ==
    ReadRow(values[k], k - 2, HeaderIndex(values[1], DescriptionLabel),
            HeaderIndex(values[1], DueDateLabel),
            HeaderIndex(values[1], PaymentDateLabel))

\* readPayments reaches NewPayment(description).WithDueDate(due) on a row of
\* values: the header passes, and a row before the first that fails is
\* unsettled with a due date that parses.
CallsWithDueDate(values) ==
    /\ getSheet(values).err = Nil
    /\ \A i \in 1..Len(values[1]) : IsString(values[1][i])
    /\ HeaderIndex(values[1], DescriptionLabel) # -1
    /\ HeaderIndex(values[1], PaymentDateLabel) # -1
    /\ HeaderIndex(values[1], DueDateLabel) # -1
    /\ \E j \in 2..Len(values) :
          /\ \A k \in 2..j : RowOf(values, k).err = Nil
          /\ RowOf(values, j).add # <<>>

(***************************************************************************)
(* main and run.  A run of run is a record of its local variables: pc is   *)
(* the statement it is at, i the index of the sheet the loop reads next,   *)
(* rows what the service returned for the sheets read so far, fetched the  *)
(* names of the sheets it asked the service for.                           *)
(***************************************************************************)
\* config.Sheets, by name.
Sheets == <<Bills, Taxes>>

NewRun ==
    [pc |-> "client", i |-> 0, fetched |-> <<>>, rows |-> <<>>,
     payments |-> <<>>, sections |-> <<>>, report |-> <<>>, err |-> NoRunError]

ServiceError == Error("service error", "", -1, -1, <<>>)

RequestOutcomes ==
    {"ok", "failed to create http request", "error sending http request",
     "server responded with status"}

\* The error SendNotification returns when the request ends with outcome.
SendNotification(outcome) ==
    IF outcome = "ok" THEN Nil ELSE Error(outcome, "", -1, -1, <<>>)

\* run returns err.
Returns(run, err) == [run EXCEPT !.pc = "done", !.err = err]

\* Caller ending the process when run returns an error.
CallerExits(err) ==
    /\ logged' = IF err # NoRunError THEN Append(logged, err) ELSE logged
    /\ proc' = IF proc.cronMode /\ err = NoRunError THEN proc
               ELSE [proc EXCEPT !.state = "exited"]

\* What the caller of run does with the error run returned: it logs it; main
\* without cron mode then returns.
Caller(err) ==
    /\ logged' = IF err # NoRunError THEN Append(logged, err) ELSE logged
    /\ proc' = IF proc.cronMode THEN proc ELSE [proc EXCEPT !.state = "exited"]

\* readPayments panics on values: run does not return, its goroutine unwinds.
Panics(run, values) ==
    [run EXCEPT !.fetched = Append(@, Sheets[run.i + 1]),
                !.rows = Append(@, values),
                !.pc = "panicked"]

\* No goroutine recovers the panic (cron.New is given no Recover wrapper, and
\* main has none): the Go runtime ends the process.
Crash ==
    /\ proc' = [proc EXCEPT !.state = "crashed"]
    /\ UNCHANGED logged

\* The goroutine of run number r is at statement pc of run, in a live process.
At(r, pc) == proc.state \in {"once", "cron"} /\ runs[r].pc = pc

\* AfterSheet leaving the loop after its first pass.
AfterSheetLeaves(i) == IF i + 1 < 1 THEN "loop" ELSE "delayed"

\* The statement after the loop's pass number i.
AfterSheet(i) == IF i + 1 < Len(Sheets) THEN "loop" ELSE "delayed"

\* LoopPass putting the sheet's payments before those of the earlier sheets.
LoopPassPrepends(run, values, res) ==
    IF res.err = Panic THEN Panics(run, values)
    ELSE IF res.returned # NoRunError
    THEN Returns([run EXCEPT !.fetched = Append(@, Sheets[run.i + 1]),
                              !.rows = Append(@, values)], res.returned)
    ELSE [run EXCEPT !.fetched = Append(@, Sheets[run.i + 1]),
                     !.rows = Append(@, values),
                     !.payments = res.payments \o @,
                     !.i = @ + 1,
                     !.pc = AfterSheet(run.i)]

\* LoopPass going on to the next sheet when one can not be read.
LoopPassSkipsFailed(run, values, res) ==
    IF res.err = Panic THEN Panics(run, values)
    ELSE [run EXCEPT !.fetched = Append(@, Sheets[run.i + 1]),
                     !.rows = Append(@, values),
                     !.payments = @ \o res.payments,
                     !.i = @ + 1,
                     !.pc = AfterSheet(run.i)]

\* One pass of the loop: the service answered values (or failed), and res is
\* what getSheet and readPayments make of it.
LoopPass(run, values, res) ==
    IF res.err = Panic THEN Panics(run, values)
    ELSE IF res.returned # NoRunError
    THEN Returns([run EXCEPT !.fetched = Append(@, Sheets[run.i + 1]),
                              !.rows = Append(@, values)], res.returned)
    ELSE [run EXCEPT !.fetched = Append(@, Sheets[run.i + 1]),
                     !.rows = Append(@, values),
                     !.payments = @ \o res.payments,
                     !.i = @ + 1,
                     !.pc = AfterSheet(run.i)]

FetchFailed(name) ==
    [done |-> TRUE, payments |-> <<>>, err |-> ServiceError,
     returned |-> RunError("failed to read sheet", name, ServiceError)]

\* WithSection with its test the wrong way round.
WithSectionInverted(sections, summary) ==
    IF summary = <<>> THEN Append(sections, summary) ELSE sections

\* sections with summary appended unless it is "".
WithSection(sections, summary) ==
    IF summary # <<>> THEN Append(sections, summary) ELSE sections

WithSentinel(sections) ==
    IF Len(sections) = 0 THEN Append(sections, NothingToReport) ELSE sections

\* Main making the scheduler with cron.New() alone.
MainWithoutLocation ==
    /\ proc.state = "start"
    /\ proc' = [proc EXCEPT !.state = IF proc.cronMode THEN "cron" ELSE "once"]
    /\ runs' = IF proc.cronMode THEN runs ELSE <<NewRun>>
    /\ UNCHANGED <<stdout, pushed, logged>>
    /\ UNCHANGED _GR
    /\ UNCHANGED <<payments, now, call, ret, sheet, rows, ingest>>

\* main parses its flags and either starts cron, making the scheduler with
\* the location GreekTimeZone() returns, or calls run once.
Main ==
    /\ proc.state = "start"
    /\ proc' = [proc EXCEPT !.state = IF proc.cronMode THEN "cron" ELSE "once"]
    /\ runs' = IF proc.cronMode THEN runs ELSE <<NewRun>>
    /\ UNCHANGED <<stdout, pushed, logged>>
    /\ _GR' = IF proc.cronMode THEN CallGreekTimeZone(_GR, "main") ELSE _GR
    /\ UNCHANGED <<payments, now, call, ret, sheet, rows, ingest>>

\* Trigger with the payments of run kept in one list that every run appends to.
TriggerKeepsPayments ==
    /\ proc.state = "cron"
    /\ Len(runs) < MaxRuns
    /\ runs' = Append(runs, IF runs = <<>> THEN NewRun
                            ELSE [NewRun EXCEPT !.payments = runs[Len(runs)].payments])
    /\ UNCHANGED <<proc, stdout, pushed, logged>>
    /\ UNCHANGED _GR
    /\ UNCHANGED <<payments, now, call, ret, sheet, rows, ingest>>

\* The schedule fires: cron calls the function in a goroutine of its own.
Trigger ==
    /\ proc.state = "cron"
    /\ Len(runs) < MaxRuns
    /\ runs' = Append(runs, NewRun)
    /\ UNCHANGED <<proc, stdout, pushed, logged>>
    /\ UNCHANGED _GR
    /\ UNCHANGED <<payments, now, call, ret, sheet, rows, ingest>>

NewService(r, ok) ==
    /\ At(r, "client")
    /\ IF ok
       THEN /\ runs' = [runs EXCEPT ![r].pc = IF Len(Sheets) > 0 THEN "loop" ELSE "delayed"]
            /\ UNCHANGED <<proc, logged>>
       ELSE /\ runs' = [runs EXCEPT ![r] = Returns(@, RunError("Unable to retrieve Sheets Client", <<>>, ServiceError))]
            /\ Caller(RunError("Unable to retrieve Sheets Client", <<>>, ServiceError))
    /\ UNCHANGED <<stdout, pushed>>
    /\ UNCHANGED _GR
    /\ UNCHANGED <<payments, now, call, ret, sheet, rows, ingest>>

\* The loop reads the next sheet: the service fails or returns values.
ReadNextSheet(r, fetched, values) ==
    /\ At(r, "loop")
    /\ runs' = [runs EXCEPT ![r] =
                  LoopPass(@, IF fetched THEN values ELSE <<>>,
                           IF fetched THEN ReadSheet(Sheets[@.i + 1], values)
                           ELSE FetchFailed(Sheets[@.i + 1]))]
    /\ IF runs'[r].pc = "done" THEN Caller(runs'[r].err)
       ELSE IF runs'[r].pc = "panicked" THEN Crash
       ELSE UNCHANGED <<proc, logged>>
    /\ UNCHANGED <<stdout, pushed>>
    /\ _GR' = IF fetched /\ CallsWithDueDate(values)
              THEN CallGreekTimeZone(_GR, "run") ELSE _GR
    /\ UNCHANGED <<payments, now, call, ret, sheet, rows, ingest>>

Delayed(r) ==
    /\ At(r, "delayed")
    /\ runs' = [runs EXCEPT
                  ![r].sections = WithSection(@, Text(SummarizeDelayedPayments(runs[r].payments, now))),
                  ![r].pc = "today"]
    /\ UNCHANGED <<proc, stdout, pushed, logged>>
    /\ _GR' = IF \E k \in 1..Len(runs[r].payments) : IsDue(runs[r].payments[k])
              THEN CallGreekTimeZone(_GR, "run") ELSE _GR
    /\ UNCHANGED <<payments, now, call, ret, sheet, rows, ingest>>

Today(r) ==
    /\ At(r, "today")
    /\ runs' = [runs EXCEPT
                  ![r].sections = WithSection(@, Text(SummarizePaymentsForToday(runs[r].payments, now))),
                  ![r].pc = "coming up"]
    /\ UNCHANGED <<proc, stdout, pushed, logged>>
    /\ _GR' = IF \E k \in 1..Len(runs[r].payments) : IsDue(runs[r].payments[k])
              THEN CallGreekTimeZone(_GR, "run") ELSE _GR
    /\ UNCHANGED <<payments, now, call, ret, sheet, rows, ingest>>

ComingUpSection(r) ==
    /\ At(r, "coming up")
    /\ runs' = [runs EXCEPT
                  ![r].sections = WithSection(@, Text(SummarizePaymentsComingUp(runs[r].payments, ComingUpDays, now))),
                  ![r].pc = "total"]
    /\ UNCHANGED <<proc, stdout, pushed, logged>>
    /\ _GR' = IF \E k \in 1..Len(runs[r].payments) : IsDue(runs[r].payments[k])
              THEN CallGreekTimeZone(_GR, "run") ELSE _GR
    /\ UNCHANGED <<payments, now, call, ret, sheet, rows, ingest>>

Total(r) ==
    /\ At(r, "total")
    /\ runs' = [runs EXCEPT
                  ![r].sections = WithSection(@, Text(SummarizeTotalPayments(runs[r].payments, TotalDays, now))),
                  ![r].pc = "report"]
    /\ UNCHANGED <<proc, stdout, pushed, logged>>
    /\ _GR' = IF runs[r].payments # <<>> THEN CallGreekTimeZone(_GR, "run") ELSE _GR
    /\ UNCHANGED <<payments, now, call, ret, sheet, rows, ingest>>

\* The report is joined, and printed when the print flag is set.
Report(r) ==
    /\ At(r, "report")
    /\ runs' = [runs EXCEPT
                  ![r].sections = WithSentinel(@),
                  ![r].report = Join(WithSentinel(runs[r].sections), <<Newline>>),
                  ![r].pc = "send"]
    /\ stdout' = IF proc.print THEN Append(stdout, runs'[r].report) ELSE stdout
    /\ UNCHANGED <<proc, pushed, logged>>
    /\ UNCHANGED _GR
    /\ UNCHANGED <<payments, now, call, ret, sheet, rows, ingest>>

\* Send calling SendNotification again after a request that failed.
SendAgain(r, outcome) ==
    /\ At(r, "send")
    /\ pushed' = Append(pushed, [run |-> r, title |-> "Payment Report",
                                 message |-> runs[r].report, outcome |-> outcome])
    /\ runs' = IF outcome = "ok" THEN [runs EXCEPT ![r] = Returns(@, NoRunError)] ELSE runs
    /\ IF outcome = "ok" THEN Caller(NoRunError) ELSE UNCHANGED <<proc, logged>>
    /\ UNCHANGED stdout
    /\ UNCHANGED _GR
    /\ UNCHANGED <<payments, now, call, ret, sheet, rows, ingest>>

\* SendNotification is called with the report, and run returns.
Send(r, outcome) ==
    /\ At(r, "send")
    /\ pushed' = Append(pushed, [run |-> r, title |-> "Payment Report",
                                 message |-> runs[r].report, outcome |-> outcome])
    /\ runs' = [runs EXCEPT ![r] =
                  Returns(@, IF SendNotification(outcome) # Nil
                             THEN RunError("failed to send notification", <<>>,
                                           SendNotification(outcome))
                             ELSE NoRunError)]
    /\ Caller(runs'[r].err)
    /\ UNCHANGED stdout
    /\ UNCHANGED _GR
    /\ UNCHANGED <<payments, now, call, ret, sheet, rows, ingest>>

(***************************************************************************)
(* One run of main without cron mode, over the sheets the service may      *)
(* return and the outcomes of its requests.                                *)
(***************************************************************************)
DayBefore == <<"2", "0", "2", "4", "-", "0", "3", "-", "3", "0">>

TwoDaysAfter == <<"2", "0", "2", "4", "-", "0", "4", "-", "0", "2">>

\* A description of two lines.
TwoLines == <<"a", Newline, "b">>

RunHeader == <<DescriptionLabel, DueDateLabel, PaymentDateLabel>>

RunRows ==
    { <<Foo, DayBefore, <<>>>>, <<Bar, ValidDate, <<>>>>, <<TwoLines, TwoDaysAfter, <<>>>>,
      <<Foo, NotADate, <<>>>>, <<Foo>> }

RunSheetValues ==
    { <<>>, <<RunHeader>>,
      <<(<<DescriptionLabel, DueDateLabel>>), <<Foo, ValidDate>>>>,
      <<(<<DescriptionLabel, PaymentDateLabel>>), <<Bar, <<>>>>>> }
    \cup UNION { {<<RunHeader>> \o data : data \in [1..n -> RunRows]} : n \in 1..MaxRows }

\* Midnight of 2024-03-31 and of 2024-04-01 in Europe/Athens, and a later day.
RunClock == {Instant(2024, 3, 30, 22), Instant(2024, 3, 31, 21), Instant(2024, 4, 2, 10)}

InitRun ==
    /\ payments = <<>>
    /\ now \in RunClock
    /\ call = NoCall
    /\ ret = NoRet
    /\ IngestIdle
    /\ proc \in {[state |-> "start", cronMode |-> FALSE, print |-> p] : p \in BOOLEAN}
    /\ runs = <<>>
    /\ stdout = <<>>
    /\ pushed = <<>>
    /\ logged = <<>>
    /\ _GR = NoLocation

NextRun ==
    \/ Main
    \/ \E r \in 1..Len(runs), ok \in BOOLEAN : NewService(r, ok)
    \/ \E r \in 1..Len(runs) : ReadNextSheet(r, FALSE, <<>>)
    \/ \E r \in 1..Len(runs), values \in RunSheetValues : ReadNextSheet(r, TRUE, values)
    \/ \E r \in 1..Len(runs) : Delayed(r)
    \/ \E r \in 1..Len(runs) : Today(r)
    \/ \E r \in 1..Len(runs) : ComingUpSection(r)
    \/ \E r \in 1..Len(runs) : Total(r)
    \/ \E r \in 1..Len(runs) : Report(r)
    \/ \E r \in 1..Len(runs), outcome \in RequestOutcomes : Send(r, outcome)
    \/ \E t \in RunClock : Tick(t)

SpecRun == InitRun /\ [][NextRun]_vars

(***************************************************************************)
(* main in cron mode: the schedule fires while earlier runs may still be   *)
(* under way.                                                              *)
(***************************************************************************)
CronSheetValues ==
    { <<RunHeader, <<Bar, ValidDate, <<>>>>>>,
      <<RunHeader, <<Foo, DayBefore, <<>>>>>>,
      <<RunHeader, <<Bar, Number, <<>>>>>> }

CronClock == {Instant(2024, 3, 30, 22), Instant(2024, 3, 31, 21)}

CronOutcomes == {"ok", "server responded with status"}

InitCron ==
    /\ payments = <<>>
    /\ now \in CronClock
    /\ call = NoCall
    /\ ret = NoRet
    /\ IngestIdle
    /\ proc = [state |-> "start", cronMode |-> TRUE, print |-> TRUE]
    /\ runs = <<>>
    /\ stdout = <<>>
    /\ pushed = <<>>
    /\ logged = <<>>
    /\ _GR = NoLocation

NextCron ==
    \/ Main
    \/ Trigger
    \/ \E r \in 1..Len(runs), ok \in BOOLEAN : NewService(r, ok)
    \/ \E r \in 1..Len(runs) : ReadNextSheet(r, FALSE, <<>>)
    \/ \E r \in 1..Len(runs), values \in CronSheetValues : ReadNextSheet(r, TRUE, values)
    \/ \E r \in 1..Len(runs) : Delayed(r)
    \/ \E r \in 1..Len(runs) : Today(r)
    \/ \E r \in 1..Len(runs) : ComingUpSection(r)
    \/ \E r \in 1..Len(runs) : Total(r)
    \/ \E r \in 1..Len(runs) : Report(r)
    \/ \E r \in 1..Len(runs), outcome \in CronOutcomes : Send(r, outcome)
    \/ \E t \in CronClock : Tick(t)

SpecCron == InitCron /\ [][NextCron]_vars

(***************************************************************************)
(* The month-column variant of ingestion: readRecurringPayments reads the  *)
(* sheet that has one column for each month, named by its number.          *)
(***************************************************************************)
\* norm: hi and lo with lo brought into [0, base).
Norm(hi, lo, base) == [hi |-> hi + lo \div base, lo |-> lo % base]

\* The hour t's wall clock shows in its location.
WallHour(t) == (t.utc + Offset(t.loc, t.utc)) % 24

\* time.Date(y, m, d, h, 0, 0, 0, loc): m is normalised into the year, and d
\* counts on from the first of the month, past its end if it is too large.
DateWithClock(y, m, d, h, loc) ==
    DateAt(DaysFromCivil(Norm(y, m - 1, 12).hi, Norm(y, m - 1, 12).lo + 1, d) * 24 + h,
           loc)

\* t.AddDate(years, months, days)
AddDate(t, years, months, days) ==
    DateWithClock(Civil(t).year + years, Civil(t).month + months,
                  Civil(t).day + days, WallHour(t), t.loc)

\* t.Month()
Month(t) == Civil(t).month

PreviousMonthNotFound ==
    Error("previous month was not found in sheet header", "", -1, -1, <<>>)

\* The run-time panic of row[descriptionIndex] on a row that is too short.
IndexOutOfRange == Error("panic: runtime error: index out of range", "", -1, -1, <<>>)

\* One pass of the loop over the data rows of the month-column sheet.
RecurringRow(row, descriptionIndex, columnIndex) ==
    IF Len(row) > columnIndex /\ ~IsString(Cell(row, columnIndex))
    THEN [err |-> Panic, add |-> <<>>]
    ELSE IF Len(row) > columnIndex /\ Cell(row, columnIndex) # <<>>
    THEN [err |-> Nil, add |-> <<>>]
    ELSE IF Len(row) <= descriptionIndex
    THEN [err |-> IndexOutOfRange, add |-> <<>>]
    ELSE IF ~IsString(Cell(row, descriptionIndex))
    THEN [err |-> Panic, add |-> <<>>]
    ELSE [err |-> Nil, add |-> <<NewPayment(Cell(row, descriptionIndex))>>]

RECURSIVE RecurringRows(_, _, _, _, _)
RecurringRows(data, idx, read, descriptionIndex, columnIndex) ==
    IF idx >= Len(data) THEN [payments |-> read, err |-> Nil]
    ELSE IF RecurringRow(data[idx + 1], descriptionIndex, columnIndex).err # Nil
    THEN [payments |-> <<>>,
          err |-> RecurringRow(data[idx + 1], descriptionIndex, columnIndex).err]
    ELSE RecurringRows(data, idx + 1,
                       read \o RecurringRow(data[idx + 1], descriptionIndex, columnIndex).add,
                       descriptionIndex, columnIndex)

\* The header checks and the loop, with the month text and the column found.
RecurringWithHeader(rs, month, descriptionIndex, columnIndex) ==
    IF \E i \in 1..Len(rs[1]) : ~IsString(rs[1][i])
    THEN [payments |-> <<>>, err |-> Panic, month |-> month, column |-> -1]
    ELSE IF columnIndex = -1
    THEN [payments |-> <<>>, err |-> PreviousMonthNotFound, month |-> month,
          column |-> columnIndex]
    ELSE IF descriptionIndex = -1
    THEN [payments |-> <<>>, err |-> DescriptionNotFound, month |-> month,
          column |-> columnIndex]
    ELSE [payments |-> RecurringRows(Tail(rs), 0, <<>>, descriptionIndex, columnIndex).payments,
          err |-> RecurringRows(Tail(rs), 0, <<>>, descriptionIndex, columnIndex).err,
          month |-> month, column |-> columnIndex]

\* The text of the month that readRecurringPayments looks for at instant t.
PreviousMonth(t) == FormatInt(Month(AddDate(t, 0, -1, 0)))

\* readRecurringPayments when time.Now() is t.
readRecurringPayments(rs, t) ==
    RecurringWithHeader(rs, PreviousMonth(t), HeaderIndex(rs[1], DescriptionLabel),
                        HeaderIndex(rs[1], PreviousMonth(t)))

\* Inputs: every day of two years, one of them a leap year, on a clock set to
\* UTC or to Europe/Athens, and sheets with a column for each month.
RecurringYears == {2023, 2024}

RecurringClock ==
    {In(Instant(y, m, d, 10), loc) :
        y \in RecurringYears, m \in 1..12, d \in 1..31, loc \in {UTC, GreekTimeZone}}

MonthHeader == <<DescriptionLabel>> \o [m \in 1..12 |-> FormatInt(m)]

RecurringHeaders == {MonthHeader, Tail(MonthHeader), <<DescriptionLabel, FormatInt(2)>>}

\* A row settled for the first n months, and ending there.
PaidThrough(description, n) == <<description>> \o [m \in 1..n |-> PaidOn]

RecurringData ==
    {PaidThrough(Foo, 2), PaidThrough(Bar, 12), <<Foo, <<>>, PaidOn, PaidOn>>, <<>>}

RecurringSheets ==
    {<<header, row>> : header \in RecurringHeaders, row \in RecurringData}
    \cup {<<MonthHeader, PaidThrough(Foo, 2), PaidThrough(Bar, n)>> : n \in {1, 3}}

InitRecurring ==
    /\ payments = <<>>
    /\ now \in {t \in RecurringClock : Civil(t).day <= DaysIn(Civil(t).month, Civil(t).year)}
    /\ call = NoCall
    /\ ret = NoRet
    /\ IngestIdle
    /\ MainIdle

\* values is what getSheet returned for the sheet of the recurring payments.
RunReadRecurringPayments ==
    /\ ~ingest.done
    /\ \E values \in RecurringSheets :
          /\ rows' = values
          /\ ingest' = [done |-> TRUE,
                        payments |-> readRecurringPayments(values, now).payments,
                        err |-> readRecurringPayments(values, now).err,
                        returned |-> NoRunError,
                        month |-> readRecurringPayments(values, now).month,
                        column |-> readRecurringPayments(values, now).column]
    /\ UNCHANGED <<payments, now, call, ret, sheet>>
    /\ UNCHANGED mainVars

NextRecurring == RunReadRecurringPayments

SpecRecurring == InitRecurring /\ [][NextRecurring]_vars

(***************************************************************************)
(* Properties of the classifier.                                           *)
(***************************************************************************)
\* The calendar day of instant t in Europe/Athens, as a day number.
AthensDay(t) == (t.utc + AthensOffset(t.utc)) \div 24

\* Whole calendar days from t's day to the day p is due, both in Europe/Athens.
DayDelta(p, t) == AthensDay(p.due) - AthensDay(t)

Range(seq) == {seq[i] : i \in 1..Len(seq)}

DueAtDiff(p, diff) == IsDue(p) /\ DiffFromNowInDays(p, now) = diff

DueUntilDiff(p, maxDiff) == IsDue(p) /\ DiffFromNowInDays(p, now) <= maxDiff

StrictlyOverdue(p) == IsDue(p) /\ DayDelta(p, now) < 0

DueOnNowsDay(p) == IsDue(p) /\ DayDelta(p, now) = 0

DueWithin(p, lo, hi) == IsDue(p) /\ lo <= DayDelta(p, now) /\ DayDelta(p, now) <= hi

\* C1: DiffFromNowInDays(now) of a date-scheduled payment is the signed number
\* of calendar days from now's day to the due day in Europe/Athens, also across
\* a 23-hour or 25-hour day.
C1_DiffIsCalendarDays ==
    call.op = "DiffFromNowInDays" /\ IsDue(payments[call.arg])
        => ret.n = DayDelta(payments[call.arg], now)

\* C2: FindPaymentsAt returns exactly the date-scheduled payments whose diff is
\* d, FindPaymentsUntil exactly those whose diff is at most m; so Until -1 is
\* exactly the strictly overdue payments and At 0 exactly those due on now's day.
C2_FindExact ==
    /\ call.op = "FindPaymentsAt" =>
          /\ ret.found = SelectSeq(payments, LAMBDA p : DueAtDiff(p, call.arg))
          /\ call.arg = 0 => ret.found = SelectSeq(payments, DueOnNowsDay)
    /\ call.op = "FindPaymentsUntil" =>
          /\ ret.found = SelectSeq(payments, LAMBDA p : DueUntilDiff(p, call.arg))
          /\ call.arg = -1 => ret.found = SelectSeq(payments, StrictlyOverdue)

SelectingCalls ==
    {"FindPaymentsAt", "FindPaymentsUntil", "SummarizeDelayedPayments",
     "SummarizePaymentsForToday", "SummarizePaymentsComingUp"}

\* C3: a payment with no due date is in no result of FindPaymentsAt,
\* FindPaymentsUntil or the Coming-Up selection, and the Delayed, Today and
\* Coming-Up lines list the descriptions of the selected payments only.
C3_NonDueNeverSelected ==
    call.op \in SelectingCalls =>
        /\ \A k \in 1..Len(payments) :
              ~IsDue(payments[k]) => payments[k] \notin Range(ret.found)
        /\ \A i \in 1..Len(ret.found) : IsDue(ret.found[i])
        /\ call.op \notin {"FindPaymentsAt", "FindPaymentsUntil"} =>
              ret.line.items = Descriptions(ret.found)

\* A payment without due date was passed to a selection that selected another.
C3_Witness ==
    /\ call.op \in {"FindPaymentsUntil", "SummarizePaymentsComingUp"}
    /\ \E k \in 1..Len(payments) : ~IsDue(payments[k])
    /\ ret.found # <<>>

\* C4: the Coming-Up selection with window w is exactly the date-scheduled
\* payments due 1 to w calendar days after now's day.
C4_ComingUpExact ==
    call.op = "SummarizePaymentsComingUp" =>
        ret.found = SelectSeq(payments, LAMBDA p : DueWithin(p, 1, call.arg))

\* C5: the Total-Pending count for window w is the number of date-scheduled
\* payments due at most w calendar days after now's day; payments without a
\* due date are not counted.
C5_TotalCountsDueOnly ==
    call.op = "SummarizeTotalPayments" =>
        ret.n = Cardinality({k \in 1..Len(payments) :
                    IsDue(payments[k]) /\ DayDelta(payments[k], now) <= call.arg})

\* C12: for a fixed payment any two reference instants on the same calendar day
\* in Europe/Athens give the same DiffFromNowInDays, whatever their time of day
\* and location; and any two due timestamps on the same Europe/Athens day give
\* the same stored due date and the same delta.
C12_TimeOfDayIndependent ==
    /\ call.op = "DiffFromNowInDays" =>
          \A t \in ClockInstants :
              AthensDay(t) = AthensDay(now) =>
                  DiffFromNowInDays(payments[call.arg], t) = ret.n
    /\ \A k \in 1..Len(payments), due \in DueInstants :
          IsDue(payments[k]) /\ AthensDay(due) = AthensDay(payments[k].due) =>
              /\ WithDueDate(NewPayment(payments[k].description), due) = payments[k]
              /\ DiffFromNowInDays(WithDueDate(NewPayment(payments[k].description), due), now)
                    = DiffFromNowInDays(payments[k], now)

\* The diff of a dated payment was taken at an instant that shares its
\* Europe/Athens day with an instant of another hour and location.
C12_Witness ==
    /\ call.op = "DiffFromNowInDays"
    /\ IsDue(payments[call.arg])
    /\ \E t \in ClockInstants :
          /\ AthensDay(t) = AthensDay(now)
          /\ t.utc # now.utc /\ t.loc # now.loc
    /\ \E due \in DueInstants :
          /\ AthensDay(due) = AthensDay(payments[call.arg].due)
          /\ due.utc # payments[call.arg].due.utc

\* C16: the Delayed line is there if and only if some date-scheduled payment is
\* strictly overdue; the Today and Coming-Up lines are always there, listing
\* the descriptions of their bucket, or a fixed placeholder when it is empty.
C16_DelayedIffOverdue ==
    /\ call.op = "SummarizeDelayedPayments" =>
          /\ Text(ret.line) # <<>> <=> \E k \in 1..Len(payments) : StrictlyOverdue(payments[k])
          /\ Text(ret.line) # <<>> =>
                Text(ret.line) = DelayedPrefix \o Join(Descriptions(ret.found), CommaSpace)
    /\ call.op = "SummarizePaymentsForToday" =>
          Text(ret.line) = IF ret.found # <<>>
                           THEN TodayPrefix \o Join(Descriptions(ret.found), CommaSpace)
                           ELSE NothingForToday
    /\ call.op = "SummarizePaymentsComingUp" =>
          Text(ret.line) = IF ret.found # <<>>
                           THEN ComingUpPrefix \o FormatInt(call.arg) \o ComingUpSuffix
                                \o Join(Descriptions(ret.found), CommaSpace)
                           ELSE NothingComingUpPrefix \o FormatInt(call.arg)
                                \o NothingComingUpSuffix

\* t is the first instant of a calendar day of Europe/Athens, read there.
AthensMidnight(t) ==
    /\ t.loc = GreekTimeZone
    /\ (t.utc + AthensOffset(t.utc)) % 24 = 0

\* What a step of NewPayment or WithDueDate does to the payments.
PaymentStep ==
    /\ Len(payments') > Len(payments) => ~IsDue(payments'[Len(payments')])
    /\ \A i \in 1..Len(payments) :
          /\ payments'[i] # payments[i] =>
                /\ IsDue(payments'[i])
                /\ payments'[i].description = payments[i].description
          /\ IsDue(payments[i]) => IsDue(payments'[i])

\* C20: a payment on which WithDueDate was never called is not due, a payment
\* is due after any call of WithDueDate, and the due value of a payment that is
\* due is midnight of a calendar day in Europe/Athens.
C20_PaymentInvariant ==
    /\ [](\A i \in 1..Len(payments) :
             IsDue(payments[i]) => AthensMidnight(payments[i].due))
    /\ [][PaymentStep]_vars

\* A payment without a due date beside one whose due date is the midnight
\* before the instant given to WithDueDate.
C20_Witness ==
    /\ Len(payments) = 2
    /\ ~IsDue(payments[1])
    /\ IsDue(payments[2])
    /\ \A due \in DueInstants : due.utc # payments[2].due.utc

(***************************************************************************)
(* Properties of ingestion, stated of the sheet that was read.             *)
(***************************************************************************)
Read == ingest.done /\ Len(rows) > 1

HasHeader(label) == \E i \in 1..Len(rows[1]) : rows[1][i] = label

\* The position (from 1) of the header cell label; the headers repeat no label.
Column(label) == CHOOSE i \in 1..Len(rows[1]) : rows[1][i] = label

HasRequiredHeaders == HasHeader(DescriptionLabel) /\ HasHeader(PaymentDateLabel)

DataRows == Tail(rows)

\* The row has a cell at the position of header label.
Covers(row, label) == Len(row) >= Column(label)

\* The row has fewer cells than some resolved column position requires.
Short(row) ==
    \/ ~Covers(row, DescriptionLabel)
    \/ ~Covers(row, PaymentDateLabel)
    \/ HasHeader(DueDateLabel) /\ ~Covers(row, DueDateLabel)

Settled(row) == row[Column(PaymentDateLabel)] # <<>>

Unsettled(row) == ~Short(row) /\ ~Settled(row)

DescriptionOf(row) == row[Column(DescriptionLabel)]

DueCellOf(row) == row[Column(DueDateLabel)]

\* The texts among DueDateCells that are YYYY-MM-DD calendar dates.
ValidDateTexts == {ValidDate, LeapDay, LongDay}

\* An unsettled row whose due-date cell does not parse, the empty cell included.
FailsToParse(row) ==
    HasHeader(DueDateLabel) /\ Unsettled(row) /\ DueCellOf(row) \notin ValidDateTexts

\* An unsettled row whose due-date cell is text that is no calendar date.
Malformed(row) == FailsToParse(row) /\ DueCellOf(row) # <<>>

Offending(row) == Short(row) \/ FailsToParse(row)

SomeRow(P(_)) == \E k \in 1..Len(DataRows) : P(DataRows[k])

\* The number (from 0) of the first data row that satisfies P.
FirstRow(P(_)) ==
    (CHOOSE k \in 1..Len(DataRows) :
        P(DataRows[k]) /\ \A j \in 1..(k - 1) : ~P(DataRows[j])) - 1

\* The label of the first column, in the order the code tests them, that the
\* row stops short of.
FirstMissing(row) ==
    IF ~Covers(row, DescriptionLabel) THEN DescriptionLabel
    ELSE IF HasHeader(DueDateLabel) /\ ~Covers(row, DueDateLabel) THEN DueDateLabel
    ELSE PaymentDateLabel

NameInMessage(label) ==
    IF label = DescriptionLabel THEN "description"
    ELSE IF label = DueDateLabel THEN "due date"
    ELSE "payment date"

UnsettledRows == SelectSeq(DataRows, Unsettled)

\* The payments read are the unsettled rows, one each and in row order.
ReadsUnsettledRows ==
    /\ Len(ingest.payments) = Len(UnsettledRows)
    /\ \A j \in 1..Len(UnsettledRows) :
          ingest.payments[j].description = DescriptionOf(UnsettledRows[j])

NoListReturned == ingest.payments = <<>> /\ payments = <<>>

\* C6: with a "Due Date" column, an unsettled row whose due-date cell is empty
\* does not abort ingestion and yields a Payment without due date.
C6_EmptyDueDateIsPending ==
    /\ Read /\ HasRequiredHeaders /\ HasHeader(DueDateLabel)
    /\ ~SomeRow(Short) /\ ~SomeRow(Malformed)
    /\ \E k \in 1..Len(DataRows) : Unsettled(DataRows[k]) /\ DueCellOf(DataRows[k]) = <<>>
    => /\ ingest.err = Nil
       /\ ReadsUnsettledRows
       /\ \A j \in 1..Len(UnsettledRows) :
             DueCellOf(UnsettledRows[j]) = <<>> => ~IsDue(ingest.payments[j])

\* C7: the list ingestion returns holds no row whose "Payment Date" cell is
\* non-empty, whatever its "Due Date" cell holds, and holds every unsettled row
\* once; settled rows never make ingestion fail by their due-date cell.
C7_SettledRowsDropped ==
    Read /\ HasRequiredHeaders =>
        /\ ingest.err = Nil => ReadsUnsettledRows /\ payments = ingest.payments
        /\ ~SomeRow(Offending) => ingest.err = Nil

\* A settled row holding text that is no date was read beside an unsettled row.
C7_Witness ==
    /\ Read /\ HasRequiredHeaders /\ HasHeader(DueDateLabel)
    /\ ingest.err = Nil
    /\ ingest.payments # <<>>
    /\ \E k \in 1..Len(DataRows) : Settled(DataRows[k]) /\ DueCellOf(DataRows[k]) = NotADate

\* C8: without a "Description" or a "Payment Date" header cell ingestion fails
\* with the error naming the missing header and returns no payments; without
\* "Due Date" it does not fail for that, and every unsettled row yields a
\* Payment without due date.
C8_RequiredHeaders ==
    Read =>
        /\ ~HasHeader(DescriptionLabel) =>
              ingest.err = DescriptionNotFound /\ NoListReturned
        /\ HasHeader(DescriptionLabel) /\ ~HasHeader(PaymentDateLabel) =>
              ingest.err = PaymentDateNotFound /\ NoListReturned
        /\ HasRequiredHeaders /\ ~HasHeader(DueDateLabel) =>
              /\ ~SomeRow(Short) => ingest.err = Nil
              /\ ingest.err = Nil =>
                    /\ ReadsUnsettledRows
                    /\ \A j \in 1..Len(ingest.payments) : ~IsDue(ingest.payments[j])

\* A sheet with rows to read failed for its missing "Payment Date" header.
C8_Witness ==
    /\ Read /\ HasHeader(DescriptionLabel) /\ ~HasHeader(PaymentDateLabel)
    /\ Len(DataRows) = MaxRows
    /\ ingest.err = PaymentDateNotFound

\* C9 as claimed: if any unsettled row has a non-empty due-date cell that is no
\* valid date, ingestion fails with the error carrying the raw cell value (and
\* run's error the sheet name), and no list is returned.
C9_MalformedDueDateAsClaimed ==
    Read /\ HasRequiredHeaders /\ SomeRow(Malformed) =>
        /\ ingest.err.kind = "failed to parse due date value"
        /\ \E k \in 1..Len(DataRows) :
              Malformed(DataRows[k]) /\ ingest.err.value = DueCellOf(DataRows[k])
        /\ ingest.returned.sheet = sheet
        /\ NoListReturned

\* C9 amended: if any unsettled row has a non-empty due-date cell that is no
\* valid date, ingestion fails, run returns the error with the sheet name, and
\* no list is returned, not even the rows before it; the error is that of the
\* first offending row, so it carries the raw cell value when no earlier row is
\* too short or has a due-date cell that fails to parse.
C9_MalformedDueDateFails ==
    Read /\ HasRequiredHeaders /\ SomeRow(Malformed) =>
        /\ ingest.err # Nil
        /\ ingest.returned =
              RunError("failed to read payments from sheet", sheet, ingest.err)
        /\ NoListReturned
        /\ FirstRow(Malformed) = FirstRow(Offending) =>
              ingest.err =
                  FailedToParseDueDate(DueCellOf(DataRows[FirstRow(Malformed) + 1]))

\* A row that is no date failed the sheet after a row that would have been read.
C9_Witness ==
    /\ Read /\ HasRequiredHeaders /\ HasHeader(DueDateLabel)
    /\ Len(DataRows) >= 2
    /\ ~Offending(DataRows[1]) /\ Unsettled(DataRows[1])
    /\ Malformed(DataRows[2])
    /\ ingest.err = FailedToParseDueDate(NotADate)

\* An unsettled row whose due-date cell is empty.
EmptyDue(row) == FailsToParse(row) /\ DueCellOf(row) = <<>>

\* C10 as claimed: ingestion fails with the error identifying row and column
\* exactly when some data row has fewer cells than a resolved column requires
\* (stated of the sheets that leave no due-date cell of an unsettled row empty).
C10_ShortRowAsClaimed ==
    Read /\ HasRequiredHeaders /\ ~SomeRow(EmptyDue) =>
        (ingest.err.kind = "can not read" <=> SomeRow(Short))

\* C10 amended: whenever some data row has fewer cells than a resolved column
\* requires, ingestion fails and returns no list (the row is never read as if
\* its missing cells were empty); the error identifies that row and column
\* exactly when the short row is the first offending row, no earlier row having
\* a due-date cell that fails to parse; rows that cover every resolved column,
\* shorter than the header or not, are read without this error.
C10_ShortRowFails ==
    Read /\ HasRequiredHeaders =>
        /\ SomeRow(Short) => ingest.err # Nil /\ NoListReturned
        /\ ingest.err.kind = "can not read" <=>
              SomeRow(Short) /\ FirstRow(Short) = FirstRow(Offending)
        /\ ingest.err.kind = "can not read" =>
              /\ ingest.err.row = FirstRow(Short)
              /\ ingest.err.label =
                    NameInMessage(FirstMissing(DataRows[FirstRow(Short) + 1]))
              /\ ingest.err.column =
                    Column(FirstMissing(DataRows[FirstRow(Short) + 1])) - 1
        /\ ~SomeRow(Offending) => ingest.err = Nil /\ ReadsUnsettledRows

\* A short row failed the sheet after a row that was read.
C10_Witness ==
    /\ Read /\ HasRequiredHeaders
    /\ ~Offending(DataRows[1]) /\ Unsettled(DataRows[1])
    /\ ingest.err.kind = "can not read"
    /\ ingest.err.row = 1

\* The calendar date each valid date text names.
DateNamed(text) ==
    IF text = ValidDate THEN [year |-> 2024, month |-> 3, day |-> 31]
    ELSE IF text = LeapDay THEN [year |-> 2024, month |-> 2, day |-> 29]
    ELSE [year |-> 2024, month |-> 10, day |-> 27]

\* Instants of the calendar day c in Europe/Athens: its first hour, its noon
\* and its last hour, read in UTC or in Europe/Athens.
InstantsOn(c) ==
    {t \in {In(Instant(c.year, c.month, c.day, h), loc) :
                h \in {-3, -2, 9, 10, 20, 21}, loc \in {UTC, GreekTimeZone}} :
        AthensDay(t) = DaysFromCivil(c.year, c.month, c.day)}

\* p is due at midnight of calendar day c in Europe/Athens, and on that day it
\* is due today.
DueTodayOn(p, c) ==
    /\ Civil(In(p.due, GreekTimeZone)) = c
    /\ (p.due.utc + AthensOffset(p.due.utc)) % 24 = 0
    /\ \A t \in InstantsOn(c) :
          /\ DiffFromNowInDays(p, t) = 0
          /\ FindPaymentsAt(<<p>>, 0, t) = <<p>>
          /\ Text(SummarizePaymentsForToday(<<p>>, t)) = TodayPrefix \o p.description

\* The sheet is the header [Description, Due Date, Payment Date] and one
\* unsettled row with a valid date.
OneDatedRow ==
    /\ Read
    /\ rows[1] = <<DescriptionLabel, DueDateLabel, PaymentDateLabel>>
    /\ Len(rows) = 2
    /\ Len(rows[2]) = 3
    /\ rows[2][2] \in ValidDateTexts
    /\ rows[2][3] = <<>>

\* C13: ingesting the header [Description, Due Date, Payment Date] and one row
\* [A, D as YYYY-MM-DD, ""] yields one Payment A due at midnight of calendar day
\* D in Europe/Athens; with any now on day D its DiffFromNowInDays is 0 and it
\* is in the due-today bucket.
C13_RoundTrip ==
    OneDatedRow =>
        /\ ingest.err = Nil
        /\ Len(ingest.payments) = 1
        /\ ingest.payments[1].description = rows[2][1]
        /\ DueTodayOn(ingest.payments[1], DateNamed(rows[2][2]))

\* The row read is due on the leap day.
C13_Witness ==
    /\ OneDatedRow
    /\ rows[2][2] = LeapDay
    /\ Len(ingest.payments) = 1
    /\ Cardinality(InstantsOn(DateNamed(LeapDay))) >= 4

(***************************************************************************)
(* Properties of run, stated of what the service returned to it.           *)
(***************************************************************************)
\* The places where sep occurs in text.
Occurrences(text, sep) ==
    {k \in 1..(Len(text) - Len(sep) + 1) : SubSeq(text, k, k + Len(sep) - 1) = sep}

FirstOccurrence(text, sep) ==
    CHOOSE k \in Occurrences(text, sep) : \A j \in Occurrences(text, sep) : k <= j

\* The pieces of text between the occurrences of sep.
RECURSIVE Split(_, _)
Split(text, sep) ==
    IF Occurrences(text, sep) = {} THEN <<text>>
    ELSE <<SubSeq(text, 1, FirstOccurrence(text, sep) - 1)>>
         \o Split(SubSeq(text, FirstOccurrence(text, sep) + Len(sep), Len(text)), sep)

HasPrefix(text, prefix) ==
    Len(text) >= Len(prefix) /\ SubSeq(text, 1, Len(prefix)) = prefix

TrimPrefix(text, prefix) == SubSeq(text, Len(prefix) + 1, Len(text))

\* a is b with some elements left out.
RECURSIVE IsSubSeq(_, _)
IsSubSeq(a, b) ==
    IF a = <<>> THEN TRUE
    ELSE IF b = <<>> THEN FALSE
    ELSE IF a[1] = b[1] THEN IsSubSeq(Tail(a), Tail(b))
    ELSE IsSubSeq(a, Tail(b))

ColumnIn(header, label) == CHOOSE i \in 1..Len(header) : header[i] = label

UnsettledIn(values) ==
    SelectSeq(Tail(values), LAMBDA row : row[ColumnIn(values[1], PaymentDateLabel)] = <<>>)

\* The descriptions of the unsettled rows of a sheet, in row order.
DescriptionsIn(values) ==
    [j \in 1..Len(UnsettledIn(values)) |->
        UnsettledIn(values)[j][ColumnIn(values[1], DescriptionLabel)]]

\* The descriptions of the unsettled rows of the sheets, in sheet order.
RECURSIVE DescriptionsInAll(_)
DescriptionsInAll(sheets) ==
    IF sheets = <<>> THEN <<>>
    ELSE DescriptionsInAll(SubSeq(sheets, 1, Len(sheets) - 1))
         \o DescriptionsIn(sheets[Len(sheets)])

ComingUpLead == ComingUpPrefix \o FormatInt(ComingUpDays) \o ComingUpSuffix

\* The lead of a section that lists descriptions.
ListLead(section) ==
    IF HasPrefix(section, DelayedPrefix) THEN DelayedPrefix
    ELSE IF HasPrefix(section, TodayPrefix) THEN TodayPrefix
    ELSE IF HasPrefix(section, ComingUpLead) THEN ComingUpLead
    ELSE <<>>

\* The descriptions a section lists.
Listed(section) == Split(TrimPrefix(section, ListLead(section)), CommaSpace)

\* The payments read so far are the unsettled rows, sheet after sheet, unless
\* run returned an error or panicked.
ReadInOrder(run) ==
    run.err = NoRunError /\ run.pc # "panicked" =>
        Descriptions(run.payments) = DescriptionsInAll(run.rows)

\* The selections from the payments read leave elements out and move none.
SelectedInOrder(run) ==
    /\ \A d \in TargetDiffs : IsSubSeq(FindPaymentsAt(run.payments, d, now), run.payments)
    /\ \A m \in MaxDiffs : IsSubSeq(FindPaymentsUntil(run.payments, m, now), run.payments)
    /\ IsSubSeq(ComingUp(run.payments, ComingUpDays, now), run.payments)

ListedInOrder(run) ==
    \A k \in 1..Len(run.sections) :
        ListLead(run.sections[k]) # <<>> =>
            IsSubSeq(Listed(run.sections[k]), Descriptions(run.payments))

InOrder(run) ==
    /\ ReadInOrder(run)
    /\ run.pc = "delayed" => SelectedInOrder(run)
    /\ run.pc = "send" => ListedInOrder(run)

\* C11: the payments of a run are the unsettled rows of its sheets in row order,
\* sheet after sheet in configured order; FindPaymentsAt, FindPaymentsUntil and
\* the Coming-Up selection return their input with elements left out; and each
\* report line lists descriptions in that order.
C11_OrderPreserved == \A r \in 1..Len(runs) : InOrder(runs[r])

\* A run over two sheets reported a payment of each as delayed.
C11_Witness ==
    \E r \in 1..Len(runs) :
        /\ runs[r].pc = "done" /\ runs[r].err = NoRunError
        /\ DescriptionsIn(runs[r].rows[1]) = <<Foo>>
        /\ DescriptionsIn(runs[r].rows[2]) = <<Bar>>
        /\ runs[r].sections[1] = DelayedPrefix \o Join(<<Foo, Bar>>, CommaSpace)

\* Run number r has joined its report.
Assembled(r) ==
    \/ runs[r].pc = "send"
    \/ runs[r].pc = "done" /\ \E k \in 1..Len(pushed) : pushed[k].run = r

\* The report is the sentinel alone, or the join of the sections produced.
SentinelOrSections(run) ==
    /\ run.report # <<>>
    /\ run.report = Join(run.sections, <<Newline>>)
    /\ \/ run.sections = <<NothingToReport>>
       \/ /\ Len(run.sections) > 0
          /\ \A k \in 1..Len(run.sections) :
                run.sections[k] # <<>> /\ run.sections[k] # NothingToReport

\* C14: the report a run prints or hands to the notifier is never the empty
\* string: it is the "Nothing to report" line when no section was produced and
\* the non-empty join of the produced sections otherwise.
C14_ReportNeverEmpty ==
    /\ \A r \in 1..Len(runs) : Assembled(r) => SentinelOrSections(runs[r])
    /\ \A k \in 1..Len(stdout) : stdout[k] # <<>>
    /\ \A k \in 1..Len(pushed) :
          pushed[k].message # <<>> /\ pushed[k].message = runs[pushed[k].run].report

\* A run printed its report and handed it to the notifier.
C14_Witness ==
    /\ Len(stdout) = 1
    /\ Len(pushed) = 1
    /\ stdout[1] = pushed[1].message
    /\ runs[1].pc = "done"

\* The place of a line in the report: 1 Delayed, 2 Today, 3 Coming Up, 4 Total;
\* 0 for a line that is none of them.
Kind(line) ==
    IF HasPrefix(line, DelayedPrefix) THEN 1
    ELSE IF HasPrefix(line, TodayPrefix) \/ line = NothingForToday THEN 2
    ELSE IF HasPrefix(line, ComingUpPrefix) \/ HasPrefix(line, NothingComingUpPrefix) THEN 3
    ELSE IF HasPrefix(line, TotalPrefix) THEN 4
    ELSE 0

\* The lines of a text: what its newlines separate.
Lines(text) == Split(text, <<Newline>>)

\* Every line of the report is a section, there is a line for each section,
\* and the sections follow each other in their fixed order.
OneLineEachInOrder(run) ==
    /\ Len(Lines(run.report)) = Len(run.sections)
    /\ \A k \in 1..Len(Lines(run.report)) : Kind(Lines(run.report)[k]) # 0
    /\ \A j, k \in 1..Len(Lines(run.report)) :
          j < k => Kind(Lines(run.report)[j]) < Kind(Lines(run.report)[k])

\* C15: the sections of a report appear in the order Delayed, Due-Today,
\* Coming-Up, Total-Pending, each is exactly one line, and one newline separates
\* consecutive sections, with none before the first or after the last.
C15_OneLinePerSection ==
    \A r \in 1..Len(runs) : Assembled(r) => OneLineEachInOrder(runs[r])

HasCell(header, label) == \E i \in 1..Len(header) : header[i] = label

\* The date texts among the due-date cells of RunRows.
RunDateTexts == {DayBefore, ValidDate, TwoDaysAfter}

\* A data row that stops short of a column the header names, or is unsettled
\* with a due-date cell that is no date.
BadRow(header, row) ==
    \/ \E label \in {DescriptionLabel, DueDateLabel, PaymentDateLabel} :
          HasCell(header, label) /\ Len(row) < ColumnIn(header, label)
    \/ /\ HasCell(header, DueDateLabel)
       /\ row[ColumnIn(header, PaymentDateLabel)] = <<>>
       /\ row[ColumnIn(header, DueDateLabel)] \notin RunDateTexts

\* What the service returned can not be ingested: nothing (also when the fetch
\* failed) or the header alone, a header without "Description" or "Payment
\* Date", or a bad row.
BadSheet(values) ==
    \/ Len(values) <= 1
    \/ ~HasCell(values[1], DescriptionLabel)
    \/ ~HasCell(values[1], PaymentDateLabel)
    \/ \E k \in 2..Len(values) : BadRow(values[1], values[k])

FailedInLoop(run) == \E k \in 1..Len(run.rows) : BadSheet(run.rows[k])

\* The run stopped at the sheet that failed, with the error naming it, and
\* produced nothing.
StoppedAt(run) ==
    /\ run.pc = "done"
    /\ run.err.msg \in {"failed to read sheet", "failed to read payments from sheet"}
    /\ run.err.sheet = Sheets[Len(run.rows)]
    /\ \A k \in 1..(Len(run.rows) - 1) : ~BadSheet(run.rows[k])
    /\ run.sections = <<>>
    /\ run.report = <<>>
    /\ \E k \in 1..Len(logged) : logged[k] = run.err

\* C17: when fetching or ingesting a sheet fails, the run returns the error to
\* its caller and neither prints nor sends a report: nothing built from the
\* sheets read before the failure is pushed.
C17_FailedRunSendsNothing ==
    /\ \A r \in 1..Len(runs) :
          FailedInLoop(runs[r]) =>
              /\ StoppedAt(runs[r])
              /\ \A k \in 1..Len(pushed) : pushed[k].run # r
    /\ Len(pushed) <= Cardinality({r \in 1..Len(runs) : ~FailedInLoop(runs[r])})
    /\ Len(stdout) <= Cardinality({r \in 1..Len(runs) : ~FailedInLoop(runs[r])})

\* With printing on, a run read payments from its first sheet and failed at
\* the second.
C17_Witness ==
    /\ proc.print
    /\ Len(runs) = 1
    /\ Len(runs[1].rows) = 2
    /\ runs[1].payments # <<>>
    /\ BadSheet(runs[1].rows[2])
    /\ runs[1].pc = "done"
    /\ stdout = <<>> /\ pushed = <<>>

\* The calls of SendNotification that run number r made.
Pushes(r) == {k \in 1..Len(pushed) : pushed[k].run = r}

\* Run number r read every configured sheet.
ReadAllSheets(r) == Len(runs[r].rows) = Len(Sheets) /\ ~FailedInLoop(runs[r])

\* The one call of SendNotification of run number r: its body is the report,
\* and its error, if any, is what run returned and the caller logged.
PushedOnce(r) ==
    /\ Cardinality(Pushes(r)) = 1
    /\ \A k \in Pushes(r) :
          /\ pushed[k].message = runs[r].report
          /\ pushed[k].message = Join(runs[r].sections, <<Newline>>)
          /\ pushed[k].outcome = "ok" => runs[r].err = NoRunError
          /\ pushed[k].outcome # "ok" =>
                /\ runs[r].err.msg = "failed to send notification"
                /\ runs[r].err.cause.kind = pushed[k].outcome
                /\ \E j \in 1..Len(logged) : logged[j] = runs[r].err

\* C18: a run that fetched and ingested every configured sheet calls the
\* notification push exactly once, with the assembled report as body; if the
\* push fails, run returns the error and does not push again.
C18_PushedExactlyOnce ==
    \A r \in 1..Len(runs) :
        /\ Cardinality(Pushes(r)) <= 1
        /\ runs[r].pc # "done" => Pushes(r) = {}
        /\ runs[r].pc = "done" /\ ReadAllSheets(r) => PushedOnce(r)

\* The push of a run failed; the run is over and its error logged.
C18_Witness ==
    /\ Len(runs) = 1
    /\ runs[1].pc = "done"
    /\ ReadAllSheets(1)
    /\ Len(pushed) = 1
    /\ pushed[1].outcome = "server responded with status"
    /\ Len(logged) = 1

(***************************************************************************)
(* Properties of main in cron mode.                                        *)
(***************************************************************************)
Failed(r) == runs[r].pc = "done" /\ runs[r].err # NoRunError

\* C19: in cron mode an error that a run returns, from ingestion or from the
\* notification, does not end the process: it is logged, the schedule can fire
\* again, and a run it starts begins with no payments and fetches its sheets
\* itself.
C19_CronSurvivesErrors ==
    /\ proc.state # "exited"
    /\ Len(logged) = Cardinality({r \in 1..Len(runs) : Failed(r)})
    /\ \A r \in 1..Len(runs) :
          /\ Failed(r) => \E k \in 1..Len(logged) : logged[k] = runs[r].err
          /\ runs[r].pc = "client" => runs[r] = NewRun
          /\ ReadInOrder(runs[r])
    /\ proc.state = "cron" /\ Len(runs) < MaxRuns => ENABLED Trigger

\* After a run that failed at a sheet and a run whose push failed, a later run
\* has read its sheets.
C19_Witness ==
    /\ Len(runs) = MaxRuns
    /\ \E r \in 1..Len(runs) : Failed(r) /\ FailedInLoop(runs[r])
    /\ runs[Len(runs)].pc = "delayed"
    /\ runs[Len(runs)].payments # <<>>
    /\ Len(logged) = MaxRuns - 1

(***************************************************************************)
(* Properties of a run and its clock.                                      *)
(***************************************************************************)
\* The sections run produces from ps when every summary is computed at t.
SectionsAt(ps, t) ==
    WithSection(
        WithSection(
            WithSection(
                WithSection(<<>>, Text(SummarizeDelayedPayments(ps, t))),
                Text(SummarizePaymentsForToday(ps, t))),
            Text(SummarizePaymentsComingUp(ps, ComingUpDays, t))),
        Text(SummarizeTotalPayments(ps, TotalDays, t)))

\* The number of the Delayed, Due-Today and Coming-Up selections at t that p is in.
BucketsOf(p, ps, t) ==
    Cardinality({b \in 1..3 :
        \/ b = 1 /\ p \in Range(FindPaymentsUntil(ps, -1, t))
        \/ b = 2 /\ p \in Range(FindPaymentsAt(ps, 0, t))
        \/ b = 3 /\ p \in Range(ComingUp(ps, ComingUpDays, t))})

\* The sections of run are those of the reference instant t, and they hold
\* every dated payment due at most ComingUpDays days after t's day once.
ComputedAt(run, t) ==
    /\ run.sections = SectionsAt(run.payments, t)
    /\ \A k \in 1..Len(run.payments) :
          IsDue(run.payments[k]) /\ DayDelta(run.payments[k], t) <= ComingUpDays =>
              BucketsOf(run.payments[k], run.payments, t) = 1

\* C21: within a run the Delayed, Due-Today, Coming-Up and Total-Pending
\* sections are computed against one reference day, so each dated payment due
\* at most 2 days after it is in exactly one of the Delayed, Due-Today and
\* Coming-Up lines, also when midnight passes while the report is assembled.
C21_OneReferenceDay ==
    \A r \in 1..Len(runs) :
        Assembled(r) => \E t \in RunClock \cup CronClock : ComputedAt(runs[r], t)

(***************************************************************************)
(* Properties of the loop over the sheets.                                 *)
(***************************************************************************)
Classifying == {"delayed", "today", "coming up", "total", "report", "send"}

\* run asked for the first sheets of the configuration, in its order, each
\* once, and holds one answer for each.
FetchedInOrder(run) ==
    /\ Len(run.fetched) <= Len(Sheets)
    /\ Len(run.rows) = Len(run.fetched)
    /\ \A k \in 1..Len(run.fetched) : run.fetched[k] = Sheets[k]
    /\ \A j, k \in 1..Len(run.fetched) : run.fetched[j] = run.fetched[k] => j = k

\* run is in its loop, every sheet asked for so far was ingested, and nothing
\* of the report is built.
InLoop(run) ==
    /\ run.i = Len(run.fetched)
    /\ run.i < Len(Sheets)
    /\ ~FailedInLoop(run)
    /\ run.sections = <<>>

\* run has ingested every sheet of the configuration.
IngestedAll(run) ==
    /\ run.fetched = Sheets
    /\ ~FailedInLoop(run)

\* run returned at the first sheet that failed, which is the last it asked for.
AbortedAtFirstFailure(run) ==
    /\ run.pc = "done"
    /\ BadSheet(run.rows[Len(run.rows)])
    /\ \A k \in 1..(Len(run.rows) - 1) : ~BadSheet(run.rows[k])
    /\ run.err.sheet = run.fetched[Len(run.fetched)]
    /\ run.sections = <<>>

OneAfterAnother(run) ==
    /\ FetchedInOrder(run)
    /\ run.pc = "loop" => InLoop(run)
    /\ FailedInLoop(run) => AbortedAtFirstFailure(run)
    /\ run.pc \in Classifying \/ run.sections # <<>> => IngestedAll(run)

\* A step fetches at most one sheet, in a run that is in its loop.
FetchStep(r) ==
    \/ runs'[r].fetched = runs[r].fetched
    \/ /\ runs[r].pc = "loop"
       /\ runs'[r].fetched = Append(runs[r].fetched, Sheets[runs[r].i + 1])

\* C22: a run fetches and ingests the sheets one after another in the order of
\* the configuration, each at most once; when a sheet fails the run returns at
\* once and fetches no later sheet; classification and report assembly start
\* only after every sheet was ingested.
C22_SheetsOneAfterAnother ==
    /\ [](\A r \in 1..Len(runs) : OneAfterAnother(runs[r]))
    /\ [][\A r \in 1..Len(runs) : FetchStep(r)]_vars

\* A run that returned at the first of two sheets, and asked for no other.
C22_Witness ==
    \E r \in 1..Len(runs) :
        /\ runs[r].pc = "done"
        /\ runs[r].fetched = <<Sheets[1]>>
        /\ Len(Sheets) > 1
        /\ runs[r].err.msg = "failed to read payments from sheet"
        /\ runs[r].err.sheet = Sheets[1]

(***************************************************************************)
(* Properties of cells that are not text.                                  *)
(***************************************************************************)
\* values has a header cell, or a cell under one of the three labels, that is
\* no string, in a sheet whose rows all reach the columns of its header.
HasNonText(values) ==
    /\ Len(values) > 1
    /\ \/ \E i \in 1..Len(values[1]) : ~IsString(values[1][i])
       \/ /\ HasCell(values[1], DescriptionLabel)
          /\ HasCell(values[1], PaymentDateLabel)
          /\ \A k \in 2..Len(values) : Len(values[k]) = Len(values[1])
          /\ \E k \in 2..Len(values) :
                \E label \in {DescriptionLabel, DueDateLabel, PaymentDateLabel} :
                    /\ HasCell(values[1], label)
                    /\ ~IsString(values[k][ColumnIn(values[1], label)])

\* The last sheet run number r read has a cell that is not text.
ReadNonText(r) ==
    /\ runs[r].rows # <<>>
    /\ runs[r].pc # "loop"
    /\ HasNonText(runs[r].rows[Len(runs[r].rows)])

\* C23: when a header cell or a data cell that is read is not text, ingestion
\* of the sheet fails with an error that ends the run, which returns it to its
\* caller to be logged, and the process lives on: the schedule can fire again.
C23_TypeErrorAbortsRunOnly ==
    \A r \in 1..Len(runs) :
        ReadNonText(r) =>
            /\ Failed(r)
            /\ runs[r].err.msg = "failed to read payments from sheet"
            /\ \E k \in 1..Len(logged) : logged[k] = runs[r].err
            /\ proc.state = "cron"
            /\ Len(runs) < MaxRuns => ENABLED Trigger

(***************************************************************************)
(* Properties of runs that overlap.                                        *)
(***************************************************************************)
\* The payments readPayments makes of the first n of the sheets in values.
RECURSIVE PaymentsOfAll(_, _)
PaymentsOfAll(values, n) ==
    IF n = 0 THEN <<>>
    ELSE PaymentsOfAll(values, n - 1) \o readPayments(values[n]).payments

\* Each of the sections is the summary of ps at an instant of the clock: the
\* Delayed line if there is one, then the other three.
SectionsOf(sections, ps) ==
    /\ Len(sections) \in {3, 4}
    /\ \E t \in CronClock :
          Text(SummarizeDelayedPayments(ps, t)) =
              IF Len(sections) = 4 THEN sections[1] ELSE <<>>
    /\ \E t \in CronClock :
          sections[Len(sections) - 2] = Text(SummarizePaymentsForToday(ps, t))
    /\ \E t \in CronClock :
          sections[Len(sections) - 1] = Text(SummarizePaymentsComingUp(ps, ComingUpDays, t))
    /\ \E t \in CronClock :
          sections[Len(sections)] = Text(SummarizeTotalPayments(ps, TotalDays, t))

\* The payments of run number r are those of the sheets it ingested itself,
\* when it leaves a pass of the loop and when its report is assembled, and
\* its report, pushed as it is, is made of them alone.
OwnRowsOnly(r) ==
    /\ runs[r].pc \in {"loop", "delayed", "send"} =>
          runs[r].payments = PaymentsOfAll(runs[r].rows, runs[r].i)
    /\ runs[r].pc = "send" =>
          /\ runs[r].report = Join(runs[r].sections, <<Newline>>)
          /\ SectionsOf(runs[r].sections, runs[r].payments)
    /\ \A k \in Pushes(r) : pushed[k].message = runs[r].report

\* Two runs are under way at once.
Overlap(q, r) ==
    /\ q # r
    /\ runs[q].pc \notin {"done", "panicked"}
    /\ runs[r].pc \notin {"done", "panicked"}

\* C24: runs that overlap share no state that changes: the payments and the
\* report of each run are made of the rows that run fetched itself, whatever
\* the other run fetched, ingested or reported.
C24_RunsShareNothing ==
    \A r \in 1..Len(runs) : OwnRowsOnly(r)

\* Two runs that read different rows have assembled their reports at once.
C24_Witness ==
    \E q, r \in 1..Len(runs) :
        /\ Overlap(q, r)
        /\ runs[q].pc = "send"
        /\ runs[r].pc = "send"
        /\ runs[q].payments # <<>>
        /\ runs[r].payments # <<>>
        /\ runs[q].rows # runs[r].rows
        /\ runs[q].report # runs[r].report

(***************************************************************************)
(* Properties of the package variable _GR.                                 *)
(***************************************************************************)
\* _GR was assigned at most once, and holds Europe/Athens once assigned.
AssignedAtMostOnce ==
    /\ Len(_GR.by) <= 1
    /\ _GR.loc = "nil" <=> _GR.by = <<>>
    /\ _GR.loc \in {"nil", GreekTimeZone}

\* In cron mode main assigned _GR before the scheduler runs anything.
AssignedByMain ==
    proc.cronMode /\ proc.state # "start" => _GR = [loc |-> GreekTimeZone, by |-> <<"main">>]

\* A step leaves _GR as it is once it is assigned, and a step of cron mode
\* that changes a run does not assign it.
GRStep ==
    /\ _GR.loc # "nil" => _GR' = _GR
    /\ proc.cronMode /\ runs' # runs => _GR' = _GR

\* C25: _GR is assigned at most once and never changes afterwards; in cron
\* mode main has assigned it when the scheduler starts, so that no run, also
\* of runs that overlap, finds it nil and assigns it.
C25_AssignedOnceBeforeRuns ==
    /\ [](AssignedAtMostOnce /\ AssignedByMain)
    /\ [][GRStep]_vars

\* Two runs under way at once have both converted due dates, with _GR as main
\* left it.
C25_Witness ==
    /\ proc.cronMode
    /\ _GR = [loc |-> GreekTimeZone, by |-> <<"main">>]
    /\ \E q, r \in 1..Len(runs) :
          /\ Overlap(q, r)
          /\ \E k \in 1..Len(runs[q].payments) : IsDue(runs[q].payments[k])
          /\ \E k \in 1..Len(runs[r].payments) : IsDue(runs[r].payments[k])

(***************************************************************************)
(* Properties of the lines of a report.                                    *)
(***************************************************************************)
\* lines are the Due-Today, Coming-Up and Total-Pending lines, after the
\* Delayed line if there are four.
ThreeOrFour(lines) ==
    /\ Len(lines) \in {3, 4}
    /\ Len(lines) = 4 => Kind(lines[1]) = 1
    /\ Kind(lines[Len(lines) - 2]) = 2
    /\ Kind(lines[Len(lines) - 1]) = 3
    /\ Kind(lines[Len(lines)]) = 4

\* C26: every assembled report holds the Due-Today, the Coming-Up and the
\* Total-Pending line, so it has exactly 3 lines, or 4 with the Delayed line
\* first, and it is never the "Nothing to report" line.
C26_ThreeOrFourLines ==
    \A r \in 1..Len(runs) :
        Assembled(r) =>
            /\ ThreeOrFour(Lines(runs[r].report))
            /\ runs[r].report # NothingToReport

(***************************************************************************)
(* Properties of the month-column ingestion.                               *)
(***************************************************************************)
\* The number of the calendar month before the month of t.
PrecedingMonth(t) == IF Civil(t).month = 1 THEN 12 ELSE Civil(t).month - 1

\* C27: readRecurringPayments selects the header column named by the number
\* of the calendar month before the current month, 12 in January, on every
\* day of the month, the 29th, 30th and 31st included.
C27_PrecedingMonthColumn ==
    ingest.done =>
        /\ ingest.month = FormatInt(PrecedingMonth(now))
        /\ ingest.err = Nil =>
              ingest.column = HeaderIndex(rows[1], FormatInt(PrecedingMonth(now)))

====
